---- MODULE Spec2Model ----
(***************************************************************************)
(* The Monopoly game rules engine (services/game-engine): the GameManager  *)
(* turn state machine with movement, property, building, jail, card and    *)
(* bankruptcy rules, and the execute_action endpoint that drives it.       *)
(***************************************************************************)
EXTENDS Integers, Sequences, FiniteSets, TLC

(* ---------- bounds of the model ---------- *)

\* players seated in the modelled game (the endpoint accepts 2..6)
NumPlayers == 4

\* faces a die shows in the model: 1..MaxFace (a real die has 6)
MaxFace == 2

\* actions executed per behaviour
MaxSteps == 3

\* executed requests per behaviour that get_valid_actions did not offer
MaxStrays == 1

\* spaces of a direct call of move_player: -MaxBack..MaxSpaces
MaxBack == 3
MaxSpaces == 40

\* the orchestrator: game ids, requests in flight, game-loop tasks ever created
MaxGames == 1
MaxCallers == 2
MaxLoops == 2

(* ---------- program constants ---------- *)

BOARD_SIZE == 40
GO_POSITION == 0
JAIL_POSITION == 10
GO_TO_JAIL_POSITION == 30
GO_SALARY == 200
JAIL_FINE == 50
MAX_JAIL_TURNS == 3
STARTING_CASH == 1500
NumCards == 16

\* Python's None for a player id / owner id
None == 0

(* ---------- static reference data ---------- *)

PROPERTIES ==
  [
    mediterranean |-> [type |-> "street", color |-> "brown", price |-> 60, rent |-> <<2, 10, 30, 90, 160, 250>>, house_cost |-> 50],
    baltic |-> [type |-> "street", color |-> "brown", price |-> 60, rent |-> <<4, 20, 60, 180, 320, 450>>, house_cost |-> 50],
    oriental |-> [type |-> "street", color |-> "light_blue", price |-> 100, rent |-> <<6, 30, 90, 270, 400, 550>>, house_cost |-> 50],
    vermont |-> [type |-> "street", color |-> "light_blue", price |-> 100, rent |-> <<6, 30, 90, 270, 400, 550>>, house_cost |-> 50],
    connecticut |-> [type |-> "street", color |-> "light_blue", price |-> 120, rent |-> <<8, 40, 100, 300, 450, 600>>, house_cost |-> 50],
    st_charles |-> [type |-> "street", color |-> "pink", price |-> 140, rent |-> <<10, 50, 150, 450, 625, 750>>, house_cost |-> 100],
    states |-> [type |-> "street", color |-> "pink", price |-> 140, rent |-> <<10, 50, 150, 450, 625, 750>>, house_cost |-> 100],
    virginia |-> [type |-> "street", color |-> "pink", price |-> 160, rent |-> <<12, 60, 180, 500, 700, 900>>, house_cost |-> 100],
    st_james |-> [type |-> "street", color |-> "orange", price |-> 180, rent |-> <<14, 70, 200, 550, 750, 950>>, house_cost |-> 100],
    tennessee |-> [type |-> "street", color |-> "orange", price |-> 180, rent |-> <<14, 70, 200, 550, 750, 950>>, house_cost |-> 100],
    new_york |-> [type |-> "street", color |-> "orange", price |-> 200, rent |-> <<16, 80, 220, 600, 800, 1000>>, house_cost |-> 100],
    kentucky |-> [type |-> "street", color |-> "red", price |-> 220, rent |-> <<18, 90, 250, 700, 875, 1050>>, house_cost |-> 150],
    indiana |-> [type |-> "street", color |-> "red", price |-> 220, rent |-> <<18, 90, 250, 700, 875, 1050>>, house_cost |-> 150],
    illinois |-> [type |-> "street", color |-> "red", price |-> 240, rent |-> <<20, 100, 300, 750, 925, 1100>>, house_cost |-> 150],
    atlantic |-> [type |-> "street", color |-> "yellow", price |-> 260, rent |-> <<22, 110, 330, 800, 975, 1150>>, house_cost |-> 150],
    ventnor |-> [type |-> "street", color |-> "yellow", price |-> 260, rent |-> <<22, 110, 330, 800, 975, 1150>>, house_cost |-> 150],
    marvin_gardens |-> [type |-> "street", color |-> "yellow", price |-> 280, rent |-> <<24, 120, 360, 850, 1025, 1200>>, house_cost |-> 150],
    pacific |-> [type |-> "street", color |-> "green", price |-> 300, rent |-> <<26, 130, 390, 900, 1100, 1275>>, house_cost |-> 200],
    north_carolina |-> [type |-> "street", color |-> "green", price |-> 300, rent |-> <<26, 130, 390, 900, 1100, 1275>>, house_cost |-> 200],
    pennsylvania |-> [type |-> "street", color |-> "green", price |-> 320, rent |-> <<28, 150, 450, 1000, 1200, 1400>>, house_cost |-> 200],
    park_place |-> [type |-> "street", color |-> "dark_blue", price |-> 350, rent |-> <<35, 175, 500, 1100, 1300, 1500>>, house_cost |-> 200],
    boardwalk |-> [type |-> "street", color |-> "dark_blue", price |-> 400, rent |-> <<50, 200, 600, 1400, 1700, 2000>>, house_cost |-> 200],
    reading_rr |-> [type |-> "railroad", color |-> "none", price |-> 200, rent |-> <<>>, house_cost |-> 0],
    pennsylvania_rr |-> [type |-> "railroad", color |-> "none", price |-> 200, rent |-> <<>>, house_cost |-> 0],
    bo_rr |-> [type |-> "railroad", color |-> "none", price |-> 200, rent |-> <<>>, house_cost |-> 0],
    short_line_rr |-> [type |-> "railroad", color |-> "none", price |-> 200, rent |-> <<>>, house_cost |-> 0],
    electric_company |-> [type |-> "utility", color |-> "none", price |-> 150, rent |-> <<>>, house_cost |-> 0],
    water_works |-> [type |-> "utility", color |-> "none", price |-> 150, rent |-> <<>>, house_cost |-> 0]
  ]

COLOR_GROUPS ==
  [
    brown |-> {"mediterranean", "baltic"},
    light_blue |-> {"oriental", "vermont", "connecticut"},
    pink |-> {"st_charles", "states", "virginia"},
    orange |-> {"st_james", "tennessee", "new_york"},
    red |-> {"kentucky", "indiana", "illinois"},
    yellow |-> {"atlantic", "ventnor", "marvin_gardens"},
    green |-> {"pacific", "north_carolina", "pennsylvania"},
    dark_blue |-> {"park_place", "boardwalk"}
  ]

BOARD_SPACES ==
  <<
    [type |-> "go", property_id |-> "none", amount |-> 0],
    [type |-> "property", property_id |-> "mediterranean", amount |-> 0],
    [type |-> "community_chest", property_id |-> "none", amount |-> 0],
    [type |-> "property", property_id |-> "baltic", amount |-> 0],
    [type |-> "tax", property_id |-> "none", amount |-> 200],
    [type |-> "property", property_id |-> "reading_rr", amount |-> 0],
    [type |-> "property", property_id |-> "oriental", amount |-> 0],
    [type |-> "chance", property_id |-> "none", amount |-> 0],
    [type |-> "property", property_id |-> "vermont", amount |-> 0],
    [type |-> "property", property_id |-> "connecticut", amount |-> 0],
    [type |-> "jail", property_id |-> "none", amount |-> 0],
    [type |-> "property", property_id |-> "st_charles", amount |-> 0],
    [type |-> "property", property_id |-> "electric_company", amount |-> 0],
    [type |-> "property", property_id |-> "states", amount |-> 0],
    [type |-> "property", property_id |-> "virginia", amount |-> 0],
    [type |-> "property", property_id |-> "pennsylvania_rr", amount |-> 0],
    [type |-> "property", property_id |-> "st_james", amount |-> 0],
    [type |-> "community_chest", property_id |-> "none", amount |-> 0],
    [type |-> "property", property_id |-> "tennessee", amount |-> 0],
    [type |-> "property", property_id |-> "new_york", amount |-> 0],
    [type |-> "free_parking", property_id |-> "none", amount |-> 0],
    [type |-> "property", property_id |-> "kentucky", amount |-> 0],
    [type |-> "chance", property_id |-> "none", amount |-> 0],
    [type |-> "property", property_id |-> "indiana", amount |-> 0],
    [type |-> "property", property_id |-> "illinois", amount |-> 0],
    [type |-> "property", property_id |-> "bo_rr", amount |-> 0],
    [type |-> "property", property_id |-> "atlantic", amount |-> 0],
    [type |-> "property", property_id |-> "ventnor", amount |-> 0],
    [type |-> "property", property_id |-> "water_works", amount |-> 0],
    [type |-> "property", property_id |-> "marvin_gardens", amount |-> 0],
    [type |-> "go_to_jail", property_id |-> "none", amount |-> 0],
    [type |-> "property", property_id |-> "pacific", amount |-> 0],
    [type |-> "property", property_id |-> "north_carolina", amount |-> 0],
    [type |-> "community_chest", property_id |-> "none", amount |-> 0],
    [type |-> "property", property_id |-> "pennsylvania", amount |-> 0],
    [type |-> "property", property_id |-> "short_line_rr", amount |-> 0],
    [type |-> "chance", property_id |-> "none", amount |-> 0],
    [type |-> "property", property_id |-> "park_place", amount |-> 0],
    [type |-> "tax", property_id |-> "none", amount |-> 100],
    [type |-> "property", property_id |-> "boardwalk", amount |-> 0]
  >>

CHANCE_CARDS ==
  <<
    [action |-> "move_to", destination |-> 39, amount |-> 0, spaces |-> 0, property_type |-> "none", house_cost |-> 0, hotel_cost |-> 0],
    [action |-> "move_to", destination |-> 0, amount |-> 0, spaces |-> 0, property_type |-> "none", house_cost |-> 0, hotel_cost |-> 0],
    [action |-> "move_to", destination |-> 24, amount |-> 0, spaces |-> 0, property_type |-> "none", house_cost |-> 0, hotel_cost |-> 0],
    [action |-> "move_to", destination |-> 11, amount |-> 0, spaces |-> 0, property_type |-> "none", house_cost |-> 0, hotel_cost |-> 0],
    [action |-> "move_to_nearest", destination |-> -1, amount |-> 0, spaces |-> 0, property_type |-> "railroad", house_cost |-> 0, hotel_cost |-> 0],
    [action |-> "move_to_nearest", destination |-> -1, amount |-> 0, spaces |-> 0, property_type |-> "railroad", house_cost |-> 0, hotel_cost |-> 0],
    [action |-> "move_to_nearest", destination |-> -1, amount |-> 0, spaces |-> 0, property_type |-> "utility", house_cost |-> 0, hotel_cost |-> 0],
    [action |-> "collect", destination |-> -1, amount |-> 50, spaces |-> 0, property_type |-> "none", house_cost |-> 0, hotel_cost |-> 0],
    [action |-> "get_out_of_jail_card", destination |-> -1, amount |-> 0, spaces |-> 0, property_type |-> "none", house_cost |-> 0, hotel_cost |-> 0],
    [action |-> "move_relative", destination |-> -1, amount |-> 0, spaces |-> -3, property_type |-> "none", house_cost |-> 0, hotel_cost |-> 0],
    [action |-> "go_to_jail", destination |-> -1, amount |-> 0, spaces |-> 0, property_type |-> "none", house_cost |-> 0, hotel_cost |-> 0],
    [action |-> "pay_per_building", destination |-> -1, amount |-> 0, spaces |-> 0, property_type |-> "none", house_cost |-> 25, hotel_cost |-> 100],
    [action |-> "pay", destination |-> -1, amount |-> 15, spaces |-> 0, property_type |-> "none", house_cost |-> 0, hotel_cost |-> 0],
    [action |-> "move_to", destination |-> 5, amount |-> 0, spaces |-> 0, property_type |-> "none", house_cost |-> 0, hotel_cost |-> 0],
    [action |-> "pay_each_player", destination |-> -1, amount |-> 50, spaces |-> 0, property_type |-> "none", house_cost |-> 0, hotel_cost |-> 0],
    [action |-> "collect", destination |-> -1, amount |-> 150, spaces |-> 0, property_type |-> "none", house_cost |-> 0, hotel_cost |-> 0]
  >>

COMMUNITY_CHEST_CARDS ==
  <<
    [action |-> "move_to", destination |-> 0, amount |-> 0, spaces |-> 0, property_type |-> "none", house_cost |-> 0, hotel_cost |-> 0],
    [action |-> "collect", destination |-> -1, amount |-> 200, spaces |-> 0, property_type |-> "none", house_cost |-> 0, hotel_cost |-> 0],
    [action |-> "pay", destination |-> -1, amount |-> 50, spaces |-> 0, property_type |-> "none", house_cost |-> 0, hotel_cost |-> 0],
    [action |-> "collect", destination |-> -1, amount |-> 50, spaces |-> 0, property_type |-> "none", house_cost |-> 0, hotel_cost |-> 0],
    [action |-> "get_out_of_jail_card", destination |-> -1, amount |-> 0, spaces |-> 0, property_type |-> "none", house_cost |-> 0, hotel_cost |-> 0],
    [action |-> "go_to_jail", destination |-> -1, amount |-> 0, spaces |-> 0, property_type |-> "none", house_cost |-> 0, hotel_cost |-> 0],
    [action |-> "collect", destination |-> -1, amount |-> 100, spaces |-> 0, property_type |-> "none", house_cost |-> 0, hotel_cost |-> 0],
    [action |-> "collect", destination |-> -1, amount |-> 20, spaces |-> 0, property_type |-> "none", house_cost |-> 0, hotel_cost |-> 0],
    [action |-> "collect_from_each_player", destination |-> -1, amount |-> 10, spaces |-> 0, property_type |-> "none", house_cost |-> 0, hotel_cost |-> 0],
    [action |-> "collect", destination |-> -1, amount |-> 100, spaces |-> 0, property_type |-> "none", house_cost |-> 0, hotel_cost |-> 0],
    [action |-> "pay", destination |-> -1, amount |-> 100, spaces |-> 0, property_type |-> "none", house_cost |-> 0, hotel_cost |-> 0],
    [action |-> "pay", destination |-> -1, amount |-> 50, spaces |-> 0, property_type |-> "none", house_cost |-> 0, hotel_cost |-> 0],
    [action |-> "collect", destination |-> -1, amount |-> 25, spaces |-> 0, property_type |-> "none", house_cost |-> 0, hotel_cost |-> 0],
    [action |-> "pay_per_building", destination |-> -1, amount |-> 0, spaces |-> 0, property_type |-> "none", house_cost |-> 40, hotel_cost |-> 115],
    [action |-> "collect", destination |-> -1, amount |-> 10, spaces |-> 0, property_type |-> "none", house_cost |-> 0, hotel_cost |-> 0],
    [action |-> "collect", destination |-> -1, amount |-> 100, spaces |-> 0, property_type |-> "none", house_cost |-> 0, hotel_cost |-> 0]
  >>

RAILROAD_IDS == {"reading_rr", "pennsylvania_rr", "bo_rr", "short_line_rr"}

UTILITY_IDS == {"electric_company", "water_works"}

ALL_PROPERTY_IDS == DOMAIN PROPERTIES

get_space(position) == BOARD_SPACES[(position % 40) + 1]

get_space_type(position) == get_space(position).type

get_property_id_at_position(position) == get_space(position).property_id

get_tax_amount(position) == get_space(position).amount

get_chance_card(card_id) == CHANCE_CARDS[card_id]

get_community_chest_card(card_id) == COMMUNITY_CHEST_CARDS[card_id]

(* ---------- dice ---------- *)

DiceRoll(die1, die2) == [die1 |-> die1, die2 |-> die2]

total(dice) == dice.die1 + dice.die2

is_doubles(dice) == dice.die1 = dice.die2

NoDice == [die1 |-> 0, die2 |-> 0]

(* ---------- movement ---------- *)

NoMovement ==
  [present |-> FALSE, new_position |-> 0, passed_go |-> FALSE,
   landed_on_go_to_jail |-> FALSE]

move_player(current_position, spaces) ==
  LET new_position == (current_position + spaces) % BOARD_SIZE
  IN  [present |-> TRUE,
       new_position |-> new_position,
       passed_go |-> (spaces > 0 /\ new_position < current_position),
       landed_on_go_to_jail |-> (new_position = GO_TO_JAIL_POSITION)]

\* variant: a direct move to the jail position pays like any other
move_to_position_via_jail(current_position, destination) ==
  [present |-> TRUE,
   new_position |-> destination,
   passed_go |-> (destination < current_position),
   landed_on_go_to_jail |-> (destination = GO_TO_JAIL_POSITION)]

move_to_position(current_position, destination) ==
  [present |-> TRUE,
   new_position |-> destination,
   passed_go |-> (destination < current_position /\ destination # JAIL_POSITION),
   landed_on_go_to_jail |-> (destination = GO_TO_JAIL_POSITION)]

\* the first listed position strictly after the current one, else the first
NearestIn(positions, current_position) ==
  LET later == {i \in 1..Len(positions) : positions[i] > current_position}
  IN  IF later # {}
        THEN positions[CHOOSE i \in later : \A j \in later : i <= j]
        ELSE positions[1]

find_nearest_property_type(current_position, property_type) ==
  IF property_type = "railroad"
    THEN NearestIn(<<5, 15, 25, 35>>, current_position)
    ELSE NearestIn(<<12, 28>>, current_position)

(* ---------- property rules ---------- *)

get_property_price(property_id) == PROPERTIES[property_id].price

\* variant: every property is taken to belong to the bank
get_owner_id_of_bank(property_id, property_states) == None

get_owner_id(property_id, property_states) == property_states[property_id].owner_id

\* variant: the price is not compared with the player's cash
can_buy_property_on_credit(property_id, player, property_states) ==
  /\ property_id \in ALL_PROPERTY_IDS
  /\ property_states[property_id].owner_id = None

can_buy_property(property_id, player, property_states) ==
  /\ property_id \in ALL_PROPERTY_IDS
  /\ property_states[property_id].owner_id = None
  /\ player.cash >= PROPERTIES[property_id].price

owns_full_color_set(player_id, color, property_states) ==
  \A pid \in COLOR_GROUPS[color] : property_states[pid].owner_id = player_id

\* variant: the rent with houses is doubled too
calculate_street_rent_doubled(property_id, property_states, owner_id) ==
  LET prop == PROPERTIES[property_id]
      houses == property_states[property_id].houses
  IN  IF \A pid \in COLOR_GROUPS[prop.color] : property_states[pid].owner_id = owner_id
        THEN prop.rent[houses + 1] * 2 ELSE prop.rent[houses + 1]

calculate_street_rent(property_id, property_states, owner_id) ==
  LET prop == PROPERTIES[property_id]
      owns_full_set == \A pid \in COLOR_GROUPS[prop.color] :
                          property_states[pid].owner_id = owner_id
      houses == property_states[property_id].houses
  IN  IF houses = 0
        THEN (IF owns_full_set THEN prop.rent[1] * 2 ELSE prop.rent[1])
        ELSE prop.rent[houses + 1]

\* variant: every owned railroad counts, whoever owns it
calculate_railroad_rent_of_all(property_states, owner_id) ==
  LET rr_count == Cardinality({pid \in RAILROAD_IDS :
                                 property_states[pid].owner_id # None})
  IN  IF rr_count <= 0 THEN 0 ELSE 25 * (2 ^ (rr_count - 1))

calculate_railroad_rent(property_states, owner_id) ==
  LET rr_count == Cardinality({pid \in RAILROAD_IDS :
                                 property_states[pid].owner_id = owner_id})
  IN  IF rr_count <= 0 THEN 0 ELSE 25 * (2 ^ (rr_count - 1))

\* variant: a missing dice total is taken as it comes
calculate_utility_rent_without_fallback(property_states, owner_id, dice_total) ==
  LET util_count == Cardinality({pid \in UTILITY_IDS :
                                   property_states[pid].owner_id = owner_id})
  IN  IF util_count = 1 THEN 4 * dice_total
      ELSE IF util_count = 2 THEN 10 * dice_total
      ELSE 0

\* variant: one utility is charged like two
calculate_utility_rent_of_both(property_states, owner_id, dice_total) ==
  10 * (IF dice_total = None THEN 7 ELSE dice_total)

\* dice_total is None when the caller supplies no roll
calculate_utility_rent(property_states, owner_id, dice_total) ==
  LET total_used == IF dice_total = None THEN 7 ELSE dice_total
      util_count == Cardinality({pid \in UTILITY_IDS :
                                   property_states[pid].owner_id = owner_id})
  IN  IF util_count = 1 THEN 4 * total_used
      ELSE IF util_count = 2 THEN 10 * total_used
      ELSE 0

calculate_rent(property_id, property_states, dice_total) ==
  IF property_id \notin ALL_PROPERTY_IDS THEN 0
  ELSE IF property_states[property_id].owner_id = None THEN 0
  ELSE LET owner_id == property_states[property_id].owner_id
           type == PROPERTIES[property_id].type
       IN  IF type = "street"
             THEN calculate_street_rent(property_id, property_states, owner_id)
           ELSE IF type = "railroad"
             THEN calculate_railroad_rent(property_states, owner_id)
           ELSE IF type = "utility"
             THEN calculate_utility_rent(property_states, owner_id, dice_total)
           ELSE 0

RECURSIVE SumOver(_, _)
SumOver(f, D) ==
  IF D = {} THEN 0
  ELSE LET x == CHOOSE y \in D : TRUE IN f[x] + SumOver(f, D \ {x})

\* <<houses, hotels>> on the properties of one owner
count_houses_and_hotels(player_id, property_states) ==
  LET owned == {pid \in ALL_PROPERTY_IDS : property_states[pid].owner_id = player_id}
      hotels == Cardinality({pid \in owned : property_states[pid].houses = 5})
      houses == SumOver([pid \in owned |->
                           IF property_states[pid].houses = 5 THEN 0
                           ELSE IF property_states[pid].houses > 0
                             THEN property_states[pid].houses ELSE 0], owned)
  IN  <<houses, hotels>>

(* ---------- building rules ---------- *)

\* variant: without the need to own the full colour set
can_build_house_anywhere(property_id, player, property_states) ==
  /\ property_id \in ALL_PROPERTY_IDS
  /\ PROPERTIES[property_id].type = "street"
  /\ property_states[property_id].owner_id = player.id
  /\ ~(property_states[property_id].houses >= 4)
  /\ \A pid \in COLOR_GROUPS[PROPERTIES[property_id].color] \ {property_id} :
        ~(property_states[pid].houses < property_states[property_id].houses)
  /\ player.cash >= PROPERTIES[property_id].house_cost

\* variant: without the even building rule
can_build_house_uneven(property_id, player, property_states) ==
  /\ property_id \in ALL_PROPERTY_IDS
  /\ PROPERTIES[property_id].type = "street"
  /\ property_states[property_id].owner_id = player.id
  /\ \A pid \in COLOR_GROUPS[PROPERTIES[property_id].color] :
        property_states[pid].owner_id = player.id
  /\ ~(property_states[property_id].houses >= 4)
  /\ player.cash >= PROPERTIES[property_id].house_cost

can_build_house(property_id, player, property_states) ==
  /\ property_id \in ALL_PROPERTY_IDS
  /\ PROPERTIES[property_id].type = "street"
  /\ property_states[property_id].owner_id = player.id
  /\ \A pid \in COLOR_GROUPS[PROPERTIES[property_id].color] :
        property_states[pid].owner_id = player.id
  /\ ~(property_states[property_id].houses >= 4)
  /\ \A pid \in COLOR_GROUPS[PROPERTIES[property_id].color] \ {property_id} :
        ~(property_states[pid].houses < property_states[property_id].houses)
  /\ player.cash >= PROPERTIES[property_id].house_cost

\* variant: a hotel is built on credit
can_build_hotel_on_credit(property_id, player, property_states) ==
  /\ property_id \in ALL_PROPERTY_IDS
  /\ PROPERTIES[property_id].type = "street"
  /\ property_states[property_id].owner_id = player.id
  /\ property_states[property_id].houses = 4
  /\ \A pid \in COLOR_GROUPS[PROPERTIES[property_id].color] \ {property_id} :
        /\ property_states[pid].owner_id = player.id
        /\ ~(property_states[pid].houses < 4)

can_build_hotel(property_id, player, property_states) ==
  /\ property_id \in ALL_PROPERTY_IDS
  /\ PROPERTIES[property_id].type = "street"
  /\ property_states[property_id].owner_id = player.id
  /\ property_states[property_id].houses = 4
  /\ \A pid \in COLOR_GROUPS[PROPERTIES[property_id].color] \ {property_id} :
        /\ property_states[pid].owner_id = player.id
        /\ ~(property_states[pid].houses < 4)
  /\ player.cash >= PROPERTIES[property_id].house_cost

get_house_cost(property_id) == PROPERTIES[property_id].house_cost

\* variant: a house is offered on every street the player owns
get_buildable_properties_owned(player, property_states) ==
  {<<pid, "house">> : pid \in {q \in ALL_PROPERTY_IDS :
        /\ property_states[q].owner_id = player.id
        /\ PROPERTIES[q].type = "street"}}

\* set of <<property_id, build_type>>
get_buildable_properties(player, property_states) ==
  {<<pid, "house">> : pid \in {q \in ALL_PROPERTY_IDS :
        /\ property_states[q].owner_id = player.id
        /\ PROPERTIES[q].type = "street"
        /\ can_build_house(q, player, property_states)}}
  \cup
  {<<pid, "hotel">> : pid \in {q \in ALL_PROPERTY_IDS :
        /\ property_states[q].owner_id = player.id
        /\ PROPERTIES[q].type = "street"
        /\ ~can_build_house(q, player, property_states)
        /\ can_build_hotel(q, player, property_states)}}

(* ---------- jail rules ---------- *)

\* variant: the fine may be paid on credit
can_pay_jail_fine_on_credit(player) == player.in_jail

can_pay_jail_fine(player) == player.in_jail /\ ~(player.cash < JAIL_FINE)

can_use_jail_card(player) == player.in_jail /\ ~(player.get_out_of_jail_cards <= 0)

\* variant: the escape roll is offered for the first two attempts only
can_roll_for_doubles_twice(player) == player.in_jail /\ player.jail_turns < 2

can_roll_for_doubles(player) == player.in_jail

\* variant: the fine is accepted whatever the player's cash
pay_jail_fine_on_credit(player) == [escaped |-> TRUE, method |-> "pay_fine"]

\* [escaped, method] of the three escape attempts
pay_jail_fine(player) ==
  IF player.cash < JAIL_FINE
    THEN [escaped |-> FALSE, method |-> "none"]
    ELSE [escaped |-> TRUE, method |-> "pay_fine"]

use_jail_card(player) ==
  IF player.get_out_of_jail_cards <= 0
    THEN [escaped |-> FALSE, method |-> "none"]
    ELSE [escaped |-> TRUE, method |-> "use_card"]

\* variant: doubles free the player against the fine
roll_for_doubles_at_a_price(player, dice_roll) ==
  IF is_doubles(dice_roll) \/ player.jail_turns >= MAX_JAIL_TURNS - 1
    THEN [escaped |-> TRUE, method |-> "forced_pay"]
    ELSE [escaped |-> FALSE, method |-> "none"]

\* variant: no forced payment on the third attempt
roll_for_doubles_without_limit(player, dice_roll) ==
  IF is_doubles(dice_roll)
    THEN [escaped |-> TRUE, method |-> "roll_doubles"]
    ELSE [escaped |-> FALSE, method |-> "none"]

roll_for_doubles(player, dice_roll) ==
  IF is_doubles(dice_roll)
    THEN [escaped |-> TRUE, method |-> "roll_doubles"]
  ELSE IF player.jail_turns >= MAX_JAIL_TURNS - 1
    THEN [escaped |-> TRUE, method |-> "forced_pay"]
  ELSE [escaped |-> FALSE, method |-> "none"]

NoJailResult == [escaped |-> FALSE, method |-> "absent"]

(* ---------- bankruptcy ---------- *)

\* variant: a player is bankrupt only once the cash is gone
check_bankruptcy_when_broke(player, debt_amount) == ~(player.cash > 0)

check_bankruptcy(player, debt_amount) == ~(player.cash >= debt_amount)

\* ids of the properties a player owns
\* variant: the properties that carry buildings are not released
handle_bankruptcy_to_bank_unbuilt(player, property_states) ==
  {pid \in ALL_PROPERTY_IDS :
     property_states[pid].owner_id = player.id /\ property_states[pid].houses = 0}

handle_bankruptcy_to_bank(player, property_states) ==
  {pid \in ALL_PROPERTY_IDS : property_states[pid].owner_id = player.id}

\* variant: the properties that carry buildings are left behind
handle_bankruptcy_to_player_unbuilt(bankrupt_player, property_states) ==
  {pid \in ALL_PROPERTY_IDS :
     property_states[pid].owner_id = bankrupt_player.id /\ property_states[pid].houses = 0}

handle_bankruptcy_to_player(bankrupt_player, property_states) ==
  {pid \in ALL_PROPERTY_IDS : property_states[pid].owner_id = bankrupt_player.id}

\* ids listed in a manager's player list that are not bankrupt, in list order
ActiveOf(ids, players) == SelectSeq(ids, LAMBDA i : ~players[i].is_bankrupt)

count_active_players(ids, players) == Len(ActiveOf(ids, players))

\* variant: the game ends only when nobody is left
is_game_over_when_empty(ids, players) == count_active_players(ids, players) < 1

is_game_over(ids, players) == count_active_players(ids, players) <= 1

get_winner(ids, players) ==
  IF Len(ActiveOf(ids, players)) = 1 THEN ActiveOf(ids, players)[1] ELSE None

(* ---------- card executor ---------- *)

NoCardEffect ==
  [card_type |-> "none", card_id |-> 0, cash_change |-> 0, new_position |-> -1,
   passed_go |-> FALSE, go_to_jail |-> FALSE, get_jail_card |-> FALSE,
   payments_to_players |-> [i \in 1..NumPlayers |-> 0],
   collections_from_players |-> [i \in 1..NumPlayers |-> 0],
   special_rent_multiplier |-> 0]

\* variant: every other player, bankrupt or not
OtherPlayers(player, all_players, players) ==
  {all_players[k] : k \in {j \in 1..Len(all_players) : all_players[j] # player.id}}

\* the other players of all_players that are not bankrupt
OtherActive(player, all_players, players) ==
  {all_players[k] : k \in {j \in 1..Len(all_players) :
      all_players[j] # player.id /\ ~players[all_players[j]].is_bankrupt}}

execute_card(card, card_id, card_type, player, all_players, players, property_states) ==
  LET effect == [NoCardEffect EXCEPT !.card_type = card_type, !.card_id = card_id]
      action == card.action
  IN  IF action = "move_to" THEN
        LET result == move_to_position(player.position, card.destination)
        IN  [effect EXCEPT !.new_position = result.new_position,
                           !.passed_go = result.passed_go,
                           !.cash_change = IF result.passed_go THEN 200 ELSE 0]
      ELSE IF action = "move_to_nearest" THEN
        LET destination == find_nearest_property_type(player.position, card.property_type)
            result == move_to_position(player.position, destination)
        IN  [effect EXCEPT !.new_position = result.new_position,
                           !.passed_go = result.passed_go,
                           !.cash_change = IF result.passed_go THEN 200 ELSE 0,
                           !.special_rent_multiplier =
                              IF card.property_type = "railroad" THEN 2
                              ELSE IF card.property_type = "utility" THEN 10 ELSE 0]
      ELSE IF action = "move_relative" THEN
        LET result == move_player(player.position, card.spaces)
        IN  [effect EXCEPT !.new_position = result.new_position,
                           !.go_to_jail = result.landed_on_go_to_jail]
      ELSE IF action = "collect" THEN [effect EXCEPT !.cash_change = card.amount]
      ELSE IF action = "pay" THEN [effect EXCEPT !.cash_change = -card.amount]
      ELSE IF action = "get_out_of_jail_card" THEN [effect EXCEPT !.get_jail_card = TRUE]
      ELSE IF action = "go_to_jail" THEN
        [effect EXCEPT !.go_to_jail = TRUE, !.new_position = JAIL_POSITION]
      ELSE IF action = "pay_per_building" THEN
        LET hh == count_houses_and_hotels(player.id, property_states)
            total_cost == (hh[1] * card.house_cost) + (hh[2] * card.hotel_cost)
        IN  [effect EXCEPT !.cash_change = -total_cost]
      ELSE IF action = "pay_each_player" THEN
        LET others == OtherActive(player, all_players, players)
        IN  [effect EXCEPT
               !.payments_to_players =
                  [i \in 1..NumPlayers |-> IF i \in others THEN card.amount ELSE 0],
               !.cash_change = -(card.amount * Cardinality(others))]
      ELSE IF action = "collect_from_each_player" THEN
        LET others == OtherActive(player, all_players, players)
        IN  [effect EXCEPT
               !.collections_from_players =
                  [i \in 1..NumPlayers |-> IF i \in others THEN card.amount ELSE 0],
               !.cash_change = card.amount * Cardinality(others)]
      ELSE effect

execute_chance_card(card_id, player, all_players, players, property_states) ==
  execute_card(get_chance_card(card_id), card_id, "chance", player, all_players,
               players, property_states)

execute_community_chest_card(card_id, player, all_players, players, property_states) ==
  execute_card(get_community_chest_card(card_id), card_id, "community_chest", player,
               all_players, players, property_states)

(* ---------- game manager ---------- *)

TurnPhase ==
  {"pre_roll", "awaiting_roll", "awaiting_buy_decision", "awaiting_jail_decision",
   "post_roll"}

ActionType ==
  {"roll_dice", "buy_property", "pass_property", "build_house", "build_hotel",
   "pay_jail_fine", "use_jail_card", "roll_for_doubles", "end_turn"}

\* ActionResult with its defaults; next_phase "none" is Python's None
ActionResult ==
  [success |-> FALSE, raised |-> FALSE, dice_roll |-> NoDice, movement |-> NoMovement,
   card_effect |-> NoCardEffect, jail_result |-> NoJailResult, bankruptcy |-> FALSE,
   rent_paid |-> 0, rent_to_player |-> None, next_phase |-> "none",
   turn_complete |-> FALSE, game_over |-> FALSE, winner_id |-> None]

\* GameManager.__init__: players is the list of player ids handed to the manager
GameManager(game, ids, players, property_states) ==
  [game |-> game, ids |-> ids, players |-> players,
   property_states |-> property_states, consecutive_doubles |-> 0]

Out(m, res) == [m |-> m, res |-> res]

\* variant: jailed where the player stands
JailedInPlace(player) == [player EXCEPT !.in_jail = TRUE, !.jail_turns = 0]

\* send a player to the jail cell
Jailed(player) ==
  [player EXCEPT !.position = JAIL_POSITION, !.in_jail = TRUE, !.jail_turns = 0]

\* id of the current player
current_player(m) ==
  LET active_players == ActiveOf(m.ids, m.players)
  IN  active_players[(m.game.current_player_index % Len(active_players)) + 1]

handle_bankruptcy(m, p, debt, creditor_id, dice, movement) ==
  LET players1 == [m.players EXCEPT ![p].is_bankrupt = TRUE, ![p].cash = 0]
      owned == handle_bankruptcy_to_bank(m.players[p], m.property_states)
      creditor_missing ==
        creditor_id # None /\ ~(\E k \in 1..Len(m.ids) : m.ids[k] = creditor_id)
      states1 ==
        IF creditor_id = None
          THEN [pid \in ALL_PROPERTY_IDS |->
                  IF pid \in owned THEN [owner_id |-> None, houses |-> 0]
                  ELSE m.property_states[pid]]
        ELSE IF creditor_missing THEN m.property_states
        ELSE [pid \in ALL_PROPERTY_IDS |->
                IF pid \in handle_bankruptcy_to_player(m.players[p], m.property_states)
                  THEN [m.property_states[pid] EXCEPT !.owner_id = creditor_id]
                  ELSE m.property_states[pid]]
      game_over == is_game_over(m.ids, players1)
      winner == IF game_over THEN get_winner(m.ids, players1) ELSE None
      m1 == [m EXCEPT !.players = players1, !.property_states = states1]
  IN  IF creditor_missing
        THEN Out(m1, [ActionResult EXCEPT !.raised = TRUE])
        ELSE Out(m1, [ActionResult EXCEPT
                        !.success = TRUE, !.dice_roll = dice, !.movement = movement,
                        !.bankruptcy = TRUE, !.turn_complete = TRUE,
                        !.game_over = game_over, !.winner_id = winner])

handle_land_on_property(m, p, dice, movement) ==
  LET player == m.players[p]
      property_id == get_property_id_at_position(player.position)
      landed == [ActionResult EXCEPT !.success = TRUE, !.dice_roll = dice,
                                     !.movement = movement]
  IN  IF property_id = "none"
        THEN Out(m, [landed EXCEPT !.next_phase = "post_roll"])
      ELSE LET owner_id == get_owner_id(property_id, m.property_states)
           IN  IF owner_id = None
                 THEN Out(m, [landed EXCEPT !.next_phase = "awaiting_buy_decision"])
               ELSE IF owner_id = player.id
                 THEN Out(m, [landed EXCEPT !.next_phase = "post_roll"])
               ELSE
                 LET rent == calculate_rent(property_id, m.property_states, total(dice))
                     owner_listed == \E k \in 1..Len(m.ids) : m.ids[k] = owner_id
                     paid == [m.players EXCEPT ![p].cash = @ - rent]
                     credited == IF owner_listed
                                   THEN [paid EXCEPT ![owner_id].cash = @ + rent]
                                   ELSE paid
                 IN  IF check_bankruptcy(player, rent)
                       THEN handle_bankruptcy(m, p, rent, owner_id, dice, movement)
                       ELSE Out([m EXCEPT !.players = credited],
                                [landed EXCEPT !.rent_paid = rent,
                                               !.rent_to_player = owner_id,
                                               !.next_phase = "post_roll"])

\* the part of _handle_land_on_card that applies the drawn card's effect
apply_card_effect(m, p, dice, movement, effect) ==
  LET player == m.players[p]
      drawn == [ActionResult EXCEPT !.success = TRUE, !.dice_roll = dice,
                                    !.movement = movement, !.card_effect = effect]
      \* position, GO salary and jail card are applied before the cash change
      moved == [player EXCEPT
                  !.position = IF effect.new_position # -1 THEN effect.new_position ELSE @,
                  !.cash = IF effect.passed_go THEN @ + GO_SALARY ELSE @,
                  !.get_out_of_jail_cards = IF effect.get_jail_card THEN @ + 1 ELSE @]
      m1 == [m EXCEPT !.players[p] = moved]
      settled == [m1.players EXCEPT ![p].cash = @ + effect.cash_change]
      others_paid ==
        [i \in 1..NumPlayers |->
           IF i # p /\ effect.payments_to_players[i] > 0
             THEN [settled[i] EXCEPT !.cash = @ + effect.payments_to_players[i]]
             ELSE settled[i]]
      others_charged ==
        [i \in 1..NumPlayers |->
           IF /\ i # p
              /\ effect.collections_from_players[i] > 0
              /\ others_paid[i].cash >= effect.collections_from_players[i]
             THEN [others_paid[i] EXCEPT !.cash = @ - effect.collections_from_players[i]]
             ELSE others_paid[i]]
  IN  IF effect.go_to_jail
        THEN Out([m EXCEPT !.players[p] = Jailed(player)],
                 [drawn EXCEPT !.next_phase = "post_roll", !.turn_complete = TRUE])
      ELSE IF effect.cash_change < 0 /\ check_bankruptcy(moved, -effect.cash_change)
        THEN handle_bankruptcy(m1, p, -effect.cash_change, None, dice, movement)
      ELSE Out([m EXCEPT !.players = others_charged],
               [drawn EXCEPT !.next_phase = "post_roll"])

handle_land_on_card(m, p, dice, movement, card_type, card_id) ==
  apply_card_effect(
    m, p, dice, movement,
    IF card_type = "chance"
      THEN execute_chance_card(card_id, m.players[p], m.ids, m.players,
                               m.property_states)
      ELSE execute_community_chest_card(card_id, m.players[p], m.ids, m.players,
                                        m.property_states))

handle_land_on_tax(m, p, dice, movement) ==
  LET player == m.players[p]
      tax_amount == get_tax_amount(player.position)
  IN  IF check_bankruptcy(player, tax_amount)
        THEN handle_bankruptcy(m, p, tax_amount, None, dice, movement)
        ELSE Out([m EXCEPT !.players[p].cash = @ - tax_amount],
                 [ActionResult EXCEPT !.success = TRUE, !.dice_roll = dice,
                                      !.movement = movement,
                                      !.next_phase = "post_roll"])

handle_landing(m, p, dice, movement, card_id) ==
  LET space_type == get_space_type(m.players[p].position)
  IN  IF space_type \in {"property", "railroad", "utility"}
        THEN handle_land_on_property(m, p, dice, movement)
      ELSE IF space_type = "chance"
        THEN handle_land_on_card(m, p, dice, movement, "chance", card_id)
      ELSE IF space_type = "community_chest"
        THEN handle_land_on_card(m, p, dice, movement, "community_chest", card_id)
      ELSE IF space_type = "tax"
        THEN handle_land_on_tax(m, p, dice, movement)
      ELSE Out(m, [ActionResult EXCEPT !.success = TRUE, !.dice_roll = dice,
                                       !.movement = movement,
                                       !.next_phase = "post_roll"])

handle_roll_dice(m, p, dice, card_id) ==
  LET player == m.players[p]
      doubles == IF is_doubles(dice) THEN m.consecutive_doubles + 1 ELSE 0
      rolled == [ActionResult EXCEPT !.success = TRUE, !.dice_roll = dice]
      movement == move_player(player.position, total(dice))
      moved == [player EXCEPT
                  !.position = movement.new_position,
                  !.cash = IF movement.passed_go THEN @ + GO_SALARY ELSE @]
      m1 == [m EXCEPT !.consecutive_doubles = doubles]
  IN  IF doubles >= 3
        THEN Out([m EXCEPT !.players[p] = Jailed(player), !.consecutive_doubles = 0],
                 [rolled EXCEPT !.next_phase = "post_roll", !.turn_complete = TRUE])
      ELSE IF movement.landed_on_go_to_jail
        THEN Out([m1 EXCEPT !.players[p] = Jailed(moved)],
                 [rolled EXCEPT !.movement = movement, !.next_phase = "post_roll",
                                !.turn_complete = TRUE])
      ELSE handle_landing([m1 EXCEPT !.players[p] = moved], p, dice, movement, card_id)

handle_roll_for_doubles(m, p, dice, card_id) ==
  LET player == m.players[p]
      result == roll_for_doubles(player, dice)
      freed == [player EXCEPT !.in_jail = FALSE, !.jail_turns = 0]
      fined == IF result.method = "forced_pay"
                 THEN [freed EXCEPT !.cash = @ - JAIL_FINE] ELSE freed
      movement == move_player(fined.position, total(dice))
      moved == [fined EXCEPT
                  !.position = movement.new_position,
                  !.cash = IF movement.passed_go THEN @ + GO_SALARY ELSE @]
  IN  IF result.escaped
        THEN IF result.method = "forced_pay" /\ freed.cash < JAIL_FINE
               THEN handle_bankruptcy([m EXCEPT !.players[p] = freed], p, JAIL_FINE,
                                      None, dice, NoMovement)
               ELSE handle_landing([m EXCEPT !.players[p] = moved], p, dice,
                                   movement, card_id)
        ELSE Out([m EXCEPT !.players[p].jail_turns = @ + 1],
                 [ActionResult EXCEPT !.success = TRUE, !.dice_roll = dice,
                                      !.jail_result = result,
                                      !.next_phase = "post_roll",
                                      !.turn_complete = TRUE])

handle_pay_jail_fine(m, p) ==
  LET result == pay_jail_fine(m.players[p])
  IN  IF result.escaped
        THEN Out([m EXCEPT !.players[p] =
                     [@ EXCEPT !.cash = @ - JAIL_FINE, !.in_jail = FALSE,
                               !.jail_turns = 0]],
                 [ActionResult EXCEPT !.success = TRUE, !.jail_result = result,
                                      !.next_phase = "pre_roll"])
        ELSE Out(m, [ActionResult EXCEPT !.jail_result = result])

handle_use_jail_card(m, p) ==
  LET result == use_jail_card(m.players[p])
  IN  IF result.escaped
        THEN Out([m EXCEPT !.players[p] =
                     [@ EXCEPT !.get_out_of_jail_cards = @ - 1, !.in_jail = FALSE,
                               !.jail_turns = 0]],
                 [ActionResult EXCEPT !.success = TRUE, !.jail_result = result,
                                      !.next_phase = "pre_roll"])
        ELSE Out(m, [ActionResult EXCEPT !.jail_result = result])

handle_buy_property(m, p, property_id) ==
  IF property_id = "none" THEN Out(m, ActionResult)
  ELSE IF ~can_buy_property(property_id, m.players[p], m.property_states)
    THEN Out(m, ActionResult)
  ELSE Out([m EXCEPT !.players[p].cash = @ - get_property_price(property_id),
                     !.property_states[property_id].owner_id = m.players[p].id],
           [ActionResult EXCEPT !.success = TRUE, !.next_phase = "post_roll"])

handle_pass_property(m, p, property_id) ==
  IF property_id = "none" THEN Out(m, ActionResult)
  ELSE Out(m, [ActionResult EXCEPT !.success = TRUE, !.next_phase = "post_roll"])

handle_build_house(m, p, property_id) ==
  IF property_id = "none" THEN Out(m, ActionResult)
  ELSE IF ~can_build_house(property_id, m.players[p], m.property_states)
    THEN Out(m, ActionResult)
  ELSE Out([m EXCEPT !.players[p].cash = @ - get_house_cost(property_id),
                     !.property_states[property_id].houses = @ + 1],
           [ActionResult EXCEPT !.success = TRUE, !.next_phase = "post_roll"])

handle_build_hotel(m, p, property_id) ==
  IF property_id = "none" THEN Out(m, ActionResult)
  ELSE IF ~can_build_hotel(property_id, m.players[p], m.property_states)
    THEN Out(m, ActionResult)
  ELSE Out([m EXCEPT !.players[p].cash = @ - get_house_cost(property_id),
                     !.property_states[property_id].houses = 5],
           [ActionResult EXCEPT !.success = TRUE, !.next_phase = "post_roll"])

advance_to_next_player(m) ==
  LET active_players == ActiveOf(m.ids, m.players)
  IN  IF Len(active_players) <= 1 THEN m
      ELSE [m EXCEPT
              !.game.current_player_index = (@ + 1) % Len(active_players),
              !.game.turn_number = @ + 1,
              !.game.turn_phase = "pre_roll"]

handle_end_turn(m, p) ==
  IF m.consecutive_doubles > 0 /\ ~m.players[p].in_jail
    THEN Out(m, [ActionResult EXCEPT !.success = TRUE, !.next_phase = "pre_roll"])
  ELSE LET m1 == advance_to_next_player([m EXCEPT !.consecutive_doubles = 0])
       IN  IF is_game_over(m1.ids, m1.players)
             THEN Out(m1, [ActionResult EXCEPT
                             !.success = TRUE, !.turn_complete = TRUE,
                             !.game_over = TRUE,
                             !.winner_id = get_winner(m1.ids, m1.players)])
             ELSE Out(m1, [ActionResult EXCEPT !.success = TRUE,
                                               !.next_phase = "pre_roll",
                                               !.turn_complete = TRUE])

\* dice and card_id are the random draws the handlers make
execute_action(m, action_type, property_id, dice, card_id) ==
  LET player == current_player(m)
  IN  CASE action_type = "roll_dice" -> handle_roll_dice(m, player, dice, card_id)
        [] action_type = "roll_for_doubles" ->
             handle_roll_for_doubles(m, player, dice, card_id)
        [] action_type = "pay_jail_fine" -> handle_pay_jail_fine(m, player)
        [] action_type = "use_jail_card" -> handle_use_jail_card(m, player)
        [] action_type = "buy_property" -> handle_buy_property(m, player, property_id)
        [] action_type = "pass_property" -> handle_pass_property(m, player, property_id)
        [] action_type = "build_house" -> handle_build_house(m, player, property_id)
        [] action_type = "build_hotel" -> handle_build_hotel(m, player, property_id)
        [] action_type = "end_turn" -> handle_end_turn(m, player)
        [] OTHER -> Out(m, ActionResult)

\* the valid actions as a set of <<action_type, property_id>>
get_valid_actions(m) ==
  LET player == m.players[current_player(m)]
      phase == m.game.turn_phase
      jail_options ==
        (IF can_pay_jail_fine(player) THEN {<<"pay_jail_fine", "none">>} ELSE {})
        \cup (IF can_use_jail_card(player) THEN {<<"use_jail_card", "none">>} ELSE {})
        \cup (IF can_roll_for_doubles(player)
                THEN {<<"roll_for_doubles", "none">>} ELSE {})
      property_id == get_property_id_at_position(player.position)
  IN  IF phase = "pre_roll" \/ phase = "awaiting_roll"
        THEN (IF player.in_jail THEN jail_options ELSE {<<"roll_dice", "none">>})
      ELSE IF phase = "awaiting_jail_decision" THEN jail_options
      ELSE IF phase = "awaiting_buy_decision"
        THEN (IF property_id # "none"
                   /\ can_buy_property(property_id, player, m.property_states)
                THEN {<<"buy_property", property_id>>, <<"pass_property", property_id>>}
                ELSE {<<"end_turn", "none">>})
      ELSE IF phase = "post_roll"
        THEN {<<IF b[2] = "house" THEN "build_house" ELSE "build_hotel", b[1]>> :
                b \in get_buildable_properties(player, m.property_states)}
             \cup {<<"end_turn", "none">>}
      ELSE {}

(* ---------- state ---------- *)

VARIABLES
  game,                 \* the persisted GameModel row
  players,              \* the persisted PlayerModel rows, by player id
  property_states,      \* the persisted PropertyStateModel rows, by property id
  consecutive_doubles,  \* _consecutive_doubles of the manager that served the last request
  last_roll,            \* history: who made the last ROLL_DICE, in which turn, and the
                        \* number of consecutive doubles it completed
  events,               \* number of rows in the game's event log
  strays,               \* executed requests that were not among the valid actions
  card_drawn,           \* history: the card the last roll drew from its deck, if any
  card_decks,           \* the persisted CardDeckModel rows, by deck type
  call,                 \* a direct call of an engine function: its name and arguments
  returned,             \* the value the call returned
  tasks,                \* the orchestrator GameManager's _tasks: game id -> task
  loop_tasks,           \* the asyncio tasks created for run_game, in creation order
  coroutines,           \* per caller, the GameManager coroutine suspended at an await
  outcomes,             \* per caller, how its GameManager call ended in the last step
  request,              \* the last action request received
  response              \* the reply to it

vars ==
  <<game, players, property_states, consecutive_doubles, last_roll, events, strays,
    card_drawn, card_decks, call, returned, tasks, loop_tasks, coroutines, outcomes,
    request, response>>

\* player ids in player_order
AllIds == [i \in 1..NumPlayers |-> i]

Player(id, position, cash, in_jail, jail_turns, cards, is_bankrupt) ==
  [id |-> id, position |-> position, cash |-> cash, in_jail |-> in_jail,
   jail_turns |-> jail_turns, get_out_of_jail_cards |-> cards,
   is_bankrupt |-> is_bankrupt]

Unowned == [pid \in ALL_PROPERTY_IDS |-> [owner_id |-> None, houses |-> 0]]

NoRequest == [player_id |-> None, action_type |-> "none", property_id |-> "none"]

NoResponse == [status |-> 0, result |-> ActionResult]

NoRoll == [player_id |-> None, turn_number |-> 0, streak |-> 0]

\* GameRepository.create followed by GameRepository.start_game
NewGame ==
  /\ game = [status |-> "in_progress", current_player_index |-> 0, turn_number |-> 1,
             turn_phase |-> "awaiting_roll", doubles_count |-> 0,
             last_dice_roll |-> NoDice, winner_id |-> None]
  /\ players = [i \in 1..NumPlayers |-> Player(i, 0, STARTING_CASH, FALSE, 0, 0, FALSE)]
  /\ property_states = Unowned

\* the seats of a game in progress, at the start of a turn
SeatChoices(i) ==
  IF i = 1 THEN {Player(1, 33, STARTING_CASH, FALSE, 0, 0, FALSE),
                 Player(1, 34, 40, FALSE, 0, 0, FALSE)}
  ELSE IF i = 2 THEN {Player(2, JAIL_POSITION, 30, TRUE, 2, 0, FALSE),
                      Player(2, JAIL_POSITION, STARTING_CASH, TRUE, 0, 1, FALSE)}
  ELSE IF i = 3 THEN {Player(3, 37, 40, FALSE, 0, 0, FALSE),
                      Player(3, 0, 0, FALSE, 0, 0, TRUE)}
  ELSE IF i = 4 THEN {Player(4, 0, 0, FALSE, 0, 0, TRUE)}
  ELSE {Player(i, 0, STARTING_CASH, FALSE, 0, 0, FALSE)}

\* who holds what in a game in progress (a bankrupt player holds nothing)
Holdings(ps) ==
  [pid \in ALL_PROPERTY_IDS |->
     IF pid = "mediterranean" THEN [owner_id |-> 1, houses |-> 4]
     ELSE IF pid = "baltic" THEN [owner_id |-> 1, houses |-> 4]
     ELSE IF pid \in {"park_place", "boardwalk", "electric_company"}
       THEN [owner_id |-> 2, houses |-> 0]
     ELSE IF pid \in {"reading_rr", "short_line_rr"} /\ ~ps[3].is_bankrupt
       THEN [owner_id |-> 3, houses |-> 0]
     ELSE [owner_id |-> None, houses |-> 0]]

GameInProgress ==
  /\ players \in {ps \in [1..NumPlayers -> UNION {SeatChoices(i) : i \in 1..NumPlayers}] :
                    \A i \in 1..NumPlayers : ps[i] \in SeatChoices(i)}
  /\ property_states = Holdings(players)
  /\ \E index \in 0..(Len(ActiveOf(AllIds, players)) - 1) :
       game = [status |-> "in_progress", current_player_index |-> index,
               turn_number |-> 2, turn_phase |-> "pre_roll", doubles_count |-> 0,
               last_dice_roll |-> NoDice, winner_id |-> None]

\* a game in progress whose current player, with cash to spare, is about to
\* make the third attempt to roll out of jail; the next player stands three
\* spaces before Go To Jail
ThirdAttempt ==
  /\ players = [i \in 1..NumPlayers |->
                  IF i = 1 THEN Player(1, 27, STARTING_CASH, FALSE, 0, 0, FALSE)
                  ELSE IF i = 2
                    THEN Player(2, JAIL_POSITION, STARTING_CASH, TRUE, 2, 0, FALSE)
                  ELSE IF i \in {3, 4} THEN Player(i, 0, 0, FALSE, 0, 0, TRUE)
                  ELSE Player(i, 0, STARTING_CASH, FALSE, 0, 0, FALSE)]
  /\ property_states = Holdings(players)
  /\ game = [status |-> "in_progress", current_player_index |-> 1,
             turn_number |-> 2, turn_phase |-> "pre_roll", doubles_count |-> 0,
             last_dice_roll |-> NoDice, winner_id |-> None]

\* a game in progress, every seat still playing, in which the last seat and
\* then the first are about to roll with little cash
LastSeatToRoll ==
  /\ players = [i \in 1..NumPlayers |->
                  IF i = 1 THEN Player(1, 34, 5, FALSE, 0, 0, FALSE)
                  ELSE IF i = 2 THEN Player(2, 12, STARTING_CASH, FALSE, 0, 0, FALSE)
                  ELSE IF i = NumPlayers THEN Player(i, 0, 40, FALSE, 0, 0, FALSE)
                  ELSE Player(i, 0, STARTING_CASH, FALSE, 0, 0, FALSE)]
  /\ property_states = Holdings(players)
  /\ game = [status |-> "in_progress", current_player_index |-> NumPlayers - 1,
             turn_number |-> 2, turn_phase |-> "pre_roll", doubles_count |-> 0,
             last_dice_roll |-> NoDice, winner_id |-> None]

\* the decks a game is created with: the order is one outcome of the shuffle
\* (ids here start at 1, current_index counts from 0 as in the row)
ShuffledDecks ==
  [deck_type \in {"chance", "community_chest"} |->
     [card_order |-> IF deck_type = "chance"
                       THEN [k \in 1..NumCards |-> NumCards + 1 - k]
                       ELSE [k \in 1..NumCards |-> ((k + 6) % NumCards) + 1],
      current_index |-> 0]]

\* no engine function is called but through the manager
NoCall == [fn |-> "none", args |-> <<>>, done |-> FALSE]

GameIds == 1..MaxGames

Callers == 1..MaxCallers

\* no call of the orchestrator's GameManager has ended / is suspended
NoOutcome == [fn |-> "none", game_id |-> None, task |-> None, done |-> FALSE,
              value |-> "none", created |-> FALSE, registered |-> FALSE]

NoCoroutine == [fn |-> "none", game_id |-> None]

\* no call ended
NoOutcomes == [c \in Callers |-> NoOutcome]

\* GameManager.__init__: no task registered, none created
NewGameManager ==
  /\ tasks = [g \in GameIds |-> None]
  /\ loop_tasks = <<>>
  /\ coroutines = [c \in Callers |-> NoCoroutine]
  /\ outcomes = NoOutcomes

Idle ==
  /\ NewGameManager
  /\ events = 0
  /\ strays = 0
  /\ card_drawn = None
  /\ request = NoRequest
  /\ response = NoResponse

\* the service between two requests: no manager exists
Init ==
  /\ NewGame \/ GameInProgress \/ ThirdAttempt \/ LastSeatToRoll
  /\ consecutive_doubles = 0
  /\ last_roll = NoRoll
  /\ card_decks = ShuffledDecks
  /\ call = NoCall
  /\ returned = None
  /\ Idle

(* ---------- the execute_action endpoint ---------- *)

\* the two dice are interchangeable: only their sum and equality are used
DiceRolls ==
  {DiceRoll(f[1], f[2]) : f \in {g \in (1..MaxFace) \X (1..MaxFace) : g[1] <= g[2]}}

\* the rolls of an escape attempt: with them the roll that takes a player from
\* jail to the Community Chest space at 17
EscapeRolls == DiceRolls \cup {DiceRoll(3, 4)}

CardIds == 1..NumCards

\* the manager the endpoint builds for a request.  fresh: constructed for this
\* request (as the endpoint does); otherwise the manager of the previous
\* request, constructed over all the game's players, serves this one too
ManagerFor(fresh) ==
  [GameManager(game, IF fresh THEN ActiveOf(AllIds, players) ELSE AllIds,
               players, property_states)
     EXCEPT !.consecutive_doubles = IF fresh THEN 0 ELSE consecutive_doubles]

\* the player whose turn it is
CurrentPlayerId == current_player(ManagerFor(TRUE))

\* a manager that lived through the current player's two doubles of this turn
\* (ROLL_DICE doubles, END_TURN, ROLL_DICE doubles, END_TURN)
InitOneManager ==
  /\ NewGame \/ GameInProgress \/ ThirdAttempt \/ LastSeatToRoll
  /\ \/ consecutive_doubles = 0 /\ last_roll = NoRoll
     \/ /\ game.turn_phase = "pre_roll"
        /\ ~players[CurrentPlayerId].in_jail
        /\ consecutive_doubles = 2
        /\ last_roll = [player_id |-> CurrentPlayerId,
                        turn_number |-> game.turn_number, streak |-> 2]
  /\ card_decks = ShuffledDecks
  /\ call = NoCall
  /\ returned = None
  /\ Idle

\* card ids worth drawing for a roll from the current player's position
CardDraws(dice) ==
  IF get_space_type(players[CurrentPlayerId].position + total(dice))
       \in {"chance", "community_chest"}
    THEN CardIds ELSE {1}

\* card ids worth drawing for an escape attempt: one when the player stays
EscapeDraws(dice) ==
  IF roll_for_doubles(players[CurrentPlayerId], dice).escaped
    THEN CardDraws(dice) ELSE {1}

\* property ids a request may name
RequestProperties ==
  {"none", "mediterranean", "baltic", "park_place",
   get_property_id_at_position(players[CurrentPlayerId].position)}

\* lines 301-314 of the endpoint: the result written back to the game row
Persist(g, result) ==
  LET game1 == IF result.next_phase # "none"
                 THEN [g EXCEPT !.turn_phase = result.next_phase] ELSE g
      game2 == IF result.dice_roll # NoDice
                 THEN [game1 EXCEPT
                         !.last_dice_roll = result.dice_roll,
                         !.doubles_count =
                            IF is_doubles(result.dice_roll) THEN @ + 1 ELSE 0]
                 ELSE game1
  IN  IF result.game_over
        THEN [game2 EXCEPT !.status = "completed", !.winner_id = result.winner_id]
        ELSE game2

\* history of ROLL_DICE: the roll just made by player_id in the game's turn
Rolled(player_id, dice) ==
  [player_id |-> player_id, turn_number |-> game.turn_number,
   streak |-> IF ~(dice.die1 = dice.die2) THEN 0
              ELSE IF last_roll.player_id = player_id
                      /\ last_roll.turn_number = game.turn_number
                THEN last_roll.streak + 1
              ELSE 1]

\* variant: the turn check lets every request through
AnyPlayerMayAct(manager, player_id) == FALSE

\* the endpoint's turn check
NotCurrentPlayer(manager, player_id) == current_player(manager) # player_id

\* history of the decks: the card a roll that moved the player onto a Chance or
\* Community Chest space drew
Drawn(player_id, result, card_id) ==
  IF result.movement.present
       /\ get_space_type(players[player_id].position + total(result.dice_roll))
            \in {"chance", "community_chest"}
    THEN card_id ELSE None

\* variant: requests are served whatever the status of the game
AlwaysInProgress(g) == FALSE

\* the endpoints' status check
NotInProgress(g) == g.status # "in_progress"

Rejected(req) ==
  /\ request' = req
  /\ response' = [status |-> 400, result |-> ActionResult]
  /\ UNCHANGED <<game, players, property_states, consecutive_doubles, last_roll,
                 events, strays, card_drawn, card_decks, call, returned,
                 tasks, loop_tasks, coroutines, outcomes>>

\* allowed: how many executed requests of a behaviour may stray from the
\* valid actions
ExecuteAction(fresh, allowed, player_id, action_type, property_id, dice, card_id) ==
  LET req == [player_id |-> player_id, action_type |-> action_type,
              property_id |-> property_id]
      manager == ManagerFor(fresh)
  IN  IF NotInProgress(game) THEN Rejected(req)
      ELSE IF NotCurrentPlayer(manager, player_id) THEN Rejected(req)
      ELSE LET stray == IF <<action_type, property_id>> \in get_valid_actions(manager)
                          THEN 0 ELSE 1
           IN  /\ events < MaxSteps
               /\ strays + stray <= allowed
               /\ \E out \in {execute_action(manager, action_type, property_id, dice,
                                              card_id)} :
                 /\ request' = req
                 /\ strays' = strays + stray
                 /\ IF out.res.raised
                      THEN /\ response' = [status |-> 500, result |-> ActionResult]
                           /\ UNCHANGED <<game, players, property_states,
                                          consecutive_doubles, last_roll, events,
                                          card_drawn, card_decks, call, returned,
                                          tasks, loop_tasks, coroutines,
                                          outcomes>>
                      ELSE /\ game' = Persist(out.m.game, out.res)
                           /\ players' = out.m.players
                           /\ property_states' = out.m.property_states
                           /\ consecutive_doubles' = out.m.consecutive_doubles
                           /\ last_roll' = IF action_type = "roll_dice"
                                             THEN Rolled(player_id, dice)
                                             ELSE last_roll
                           /\ card_drawn' = Drawn(player_id, out.res, card_id)
                           /\ UNCHANGED <<card_decks, call, returned, tasks,
                                          loop_tasks, coroutines, outcomes>>
                           /\ events' = events + 1
                           /\ response' = [status |-> 200, result |-> out.res]

RollDice(fresh, allowed) ==
  \E dice \in DiceRolls : \E card_id \in CardDraws(dice) :
    ExecuteAction(fresh, allowed, CurrentPlayerId, "roll_dice", "none", dice, card_id)

RollForDoubles(fresh, allowed) ==
  \E dice \in EscapeRolls : \E card_id \in EscapeDraws(dice) :
    ExecuteAction(fresh, allowed, CurrentPlayerId, "roll_for_doubles", "none", dice, card_id)

PayJailFine(fresh, allowed) ==
  ExecuteAction(fresh, allowed, CurrentPlayerId, "pay_jail_fine", "none", NoDice, 1)

UseJailCard(fresh, allowed) ==
  ExecuteAction(fresh, allowed, CurrentPlayerId, "use_jail_card", "none", NoDice, 1)

BuyProperty(fresh, allowed) ==
  \E property_id \in RequestProperties :
    ExecuteAction(fresh, allowed, CurrentPlayerId, "buy_property", property_id, NoDice, 1)

PassProperty(fresh, allowed) ==
  \E property_id \in RequestProperties :
    ExecuteAction(fresh, allowed, CurrentPlayerId, "pass_property", property_id, NoDice, 1)

BuildHouse(fresh, allowed) ==
  \E property_id \in RequestProperties :
    ExecuteAction(fresh, allowed, CurrentPlayerId, "build_house", property_id, NoDice, 1)

BuildHotel(fresh, allowed) ==
  \E property_id \in RequestProperties :
    ExecuteAction(fresh, allowed, CurrentPlayerId, "build_hotel", property_id, NoDice, 1)

EndTurn(fresh, allowed) ==
  ExecuteAction(fresh, allowed, CurrentPlayerId, "end_turn", "none", NoDice, 1)

\* a request made in the name of the player seated after the current one
NotYourTurn ==
  ExecuteAction(TRUE, 0, (CurrentPlayerId % NumPlayers) + 1, "roll_dice", "none",
                DiceRoll(1, 1), 1)

\* the service as written: one GameManager per request, the game played with
\* the actions get_valid_actions offers
Next ==
  \/ RollDice(TRUE, 0)
  \/ RollForDoubles(TRUE, 0)
  \/ PayJailFine(TRUE, 0)
  \/ UseJailCard(TRUE, 0)
  \/ BuyProperty(TRUE, 0)
  \/ PassProperty(TRUE, 0)
  \/ BuildHouse(TRUE, 0)
  \/ BuildHotel(TRUE, 0)
  \/ EndTurn(TRUE, 0)
  \/ NotYourTurn

Spec == Init /\ [][Next]_vars

\* the service served requests that may stray from the valid actions
NextAnyRequest ==
  \/ RollDice(TRUE, MaxStrays)
  \/ RollForDoubles(TRUE, MaxStrays)
  \/ PayJailFine(TRUE, MaxStrays)
  \/ UseJailCard(TRUE, MaxStrays)
  \/ BuyProperty(TRUE, MaxStrays)
  \/ PassProperty(TRUE, MaxStrays)
  \/ BuildHouse(TRUE, MaxStrays)
  \/ BuildHotel(TRUE, MaxStrays)
  \/ EndTurn(TRUE, MaxStrays)
  \/ NotYourTurn

SpecAnyRequest == Init /\ [][NextAnyRequest]_vars

\* the game played with valid actions, but for BUILD_HOTEL, which is also
\* requested where get_valid_actions does not offer it
NextAnyHotel ==
  \/ RollDice(TRUE, 0)
  \/ RollForDoubles(TRUE, 0)
  \/ PayJailFine(TRUE, 0)
  \/ UseJailCard(TRUE, 0)
  \/ BuyProperty(TRUE, 0)
  \/ PassProperty(TRUE, 0)
  \/ BuildHouse(TRUE, 0)
  \/ BuildHotel(TRUE, MaxStrays)
  \/ EndTurn(TRUE, 0)

SpecAnyHotel == Init /\ [][NextAnyHotel]_vars

\* the game played with valid actions, but for BUY_PROPERTY, which is also
\* requested when it is not offered
NextAnyBuy ==
  \/ RollDice(TRUE, 0)
  \/ RollForDoubles(TRUE, 0)
  \/ PayJailFine(TRUE, 0)
  \/ UseJailCard(TRUE, 0)
  \/ BuyProperty(TRUE, MaxStrays)
  \/ PassProperty(TRUE, 0)
  \/ BuildHouse(TRUE, 0)
  \/ BuildHotel(TRUE, 0)
  \/ EndTurn(TRUE, 0)

SpecAnyBuy == Init /\ [][NextAnyBuy]_vars

\* the service asked to pay the fine or to use the card whether offered or not
NextAnyJailExit ==
  \/ RollDice(TRUE, 0)
  \/ RollForDoubles(TRUE, 0)
  \/ PayJailFine(TRUE, MaxStrays)
  \/ UseJailCard(TRUE, MaxStrays)
  \/ BuyProperty(TRUE, 0)
  \/ PassProperty(TRUE, 0)
  \/ BuildHouse(TRUE, 0)
  \/ BuildHotel(TRUE, 0)
  \/ EndTurn(TRUE, 0)

SpecAnyJailExit == Init /\ [][NextAnyJailExit]_vars

\* the valid-actions endpoint: a read of the game, refused unless the game is
\* in progress
GetValidActions ==
  /\ request' = [player_id |-> None, action_type |-> "get_valid_actions",
                 property_id |-> "none"]
  /\ response' = [status |-> IF NotInProgress(game) THEN 400 ELSE 200,
                  result |-> ActionResult]
  /\ UNCHANGED <<game, players, property_states, consecutive_doubles, last_roll,
                 events, strays, card_drawn, card_decks, call, returned,
                 tasks, loop_tasks, coroutines, outcomes>>

\* the service as written, asked for the valid actions as well
NextWithQueries ==
  \/ Next
  \/ GetValidActions

SpecWithQueries == Init /\ [][NextWithQueries]_vars

\* the game state the orchestrator fetches: every player row of the game,
\* bankrupt or not, in the order the players were seated
get_game == [players |-> AllIds, current_player_index |-> game.current_player_index,
             status |-> game.status]

\* the dice and the card a submitted action may meet in the engine
DrawsFor(action_type) ==
  IF action_type = "roll_dice"
    THEN UNION {{<<dice, card_id>> : card_id \in CardDraws(dice)} : dice \in DiceRolls}
  ELSE IF action_type = "roll_for_doubles"
    THEN UNION {{<<dice, card_id>> : card_id \in EscapeDraws(dice)} :
                  dice \in EscapeRolls}
  ELSE {<<NoDice, 1>>}

\* one round of the orchestrator's game loop: it fetches the state, takes
\* players[current_player_index] of it as the player to act, asks the engine
\* for the valid actions and submits one of them in that player's name
ExecuteTurn ==
  LET state == get_game
  IN  /\ state.status # "completed"
      /\ state.current_player_index < Len(state.players)
      /\ \E action \in get_valid_actions(ManagerFor(TRUE)) :
           \E draw \in DrawsFor(action[1]) :
             ExecuteAction(TRUE, 0, state.players[state.current_player_index + 1],
                           action[1], action[2], draw[1], draw[2])

\* the game played by the orchestrator
NextOrchestrated == ExecuteTurn

SpecOrchestrated == Init /\ [][NextOrchestrated]_vars

\* one GameManager instance executing every action of the game
NextOneManager ==
  \/ RollDice(FALSE, 0)
  \/ RollForDoubles(FALSE, 0)
  \/ PayJailFine(FALSE, 0)
  \/ UseJailCard(FALSE, 0)
  \/ BuyProperty(FALSE, 0)
  \/ PassProperty(FALSE, 0)
  \/ BuildHouse(FALSE, 0)
  \/ BuildHotel(FALSE, 0)
  \/ EndTurn(FALSE, 0)

SpecOneManager == InitOneManager /\ [][NextOneManager]_vars

TypeOK ==
  /\ game.turn_phase \in TurnPhase
  /\ game.status \in {"in_progress", "completed"}
  /\ events \in 0..MaxSteps

(* ---------- the engine's functions called directly ---------- *)

Call(fn, args) == [fn |-> fn, args |-> args, done |-> FALSE]

\* the holdings of one street group as a game can have them: houses stand
\* only on a group one player owns whole, and evenly
StreetHoldings(color) ==
  LET group == COLOR_GROUPS[color]
      held == {h \in [group -> [owner_id : 0..NumPlayers, houses : 0..5]] :
                 \A pid \in group :
                   /\ h[pid].houses > 0 =>
                        /\ h[pid].owner_id # None
                        /\ \A other \in group : h[other].owner_id = h[pid].owner_id
                   /\ \A other \in group : h[pid].houses - h[other].houses <= 1}
  IN  {[pid \in ALL_PROPERTY_IDS |-> IF pid \in group THEN h[pid] ELSE Unowned[pid]] :
         h \in held}

\* the railroads held in every way
RailroadHoldings ==
  {[pid \in ALL_PROPERTY_IDS |->
      IF pid \in RAILROAD_IDS THEN [owner_id |-> o[pid], houses |-> 0]
      ELSE Unowned[pid]] : o \in [RAILROAD_IDS -> 0..NumPlayers]}

\* the utilities held in every way
UtilityHoldings ==
  {[pid \in ALL_PROPERTY_IDS |->
      IF pid \in UTILITY_IDS THEN [owner_id |-> o[pid], houses |-> 0]
      ELSE Unowned[pid]] : o \in [UTILITY_IDS -> 0..NumPlayers]}

\* the dice totals a caller passes: None, or the total of a roll
DiceTotals == {None} \cup (2..(2 * MaxFace))

\* a caller about to call one engine function with arguments of its choice
InitEngine ==
  /\ game = [status |-> "in_progress", current_player_index |-> 0, turn_number |-> 1,
             turn_phase |-> "awaiting_roll", doubles_count |-> 0,
             last_dice_roll |-> NoDice, winner_id |-> None]
  /\ players = [i \in 1..NumPlayers |-> Player(i, 0, STARTING_CASH, FALSE, 0, 0, FALSE)]
  /\ \/ /\ property_states = Unowned
        /\ \E current_position \in 0..(BOARD_SIZE - 1) :
             \/ \E spaces \in (0 - MaxBack)..MaxSpaces :
                  call = Call("move_player", <<current_position, spaces>>)
             \/ \E destination \in 0..(BOARD_SIZE - 1) :
                  call = Call("move_to_position", <<current_position, destination>>)
     \/ /\ property_states \in StreetHoldings("brown")
        /\ \E property_id \in COLOR_GROUPS["brown"] :
             call = Call("calculate_rent", <<property_id, 2 * MaxFace>>)
     \/ /\ property_states \in RailroadHoldings
        /\ \E property_id \in RAILROAD_IDS :
             call = Call("calculate_rent", <<property_id, 2 * MaxFace>>)
     \/ /\ property_states \in UtilityHoldings
        /\ \E property_id \in UTILITY_IDS : \E dice_total \in DiceTotals :
             call = Call("calculate_rent", <<property_id, dice_total>>)
  /\ returned = None
  /\ consecutive_doubles = 0
  /\ last_roll = NoRoll
  /\ card_decks = ShuffledDecks
  /\ Idle

\* the call returns
Return(value) ==
  /\ ~call.done
  /\ call' = [call EXCEPT !.done = TRUE]
  /\ returned' = value
  /\ UNCHANGED <<game, players, property_states, consecutive_doubles, last_roll,
                 events, strays, card_drawn, card_decks, tasks, loop_tasks,
                 coroutines, outcomes, request, response>>

MovePlayer ==
  /\ call.fn = "move_player"
  /\ Return(move_player(call.args[1], call.args[2]))

MoveToPosition ==
  /\ call.fn = "move_to_position"
  /\ Return(move_to_position(call.args[1], call.args[2]))

CalculateRent ==
  /\ call.fn = "calculate_rent"
  /\ Return(calculate_rent(call.args[1], property_states, call.args[2]))

NextEngine ==
  \/ MovePlayer
  \/ MoveToPosition
  \/ CalculateRent

SpecEngine == InitEngine /\ [][NextEngine]_vars

(* ---------- properties ---------- *)

\* the step served a request of the given type and executed it
Served(action_type) ==
  request'.action_type = action_type /\ response'.status = 200

\* the current player's most recent ROLL_DICE of this turn was doubles
RolledDoublesThisTurn ==
  /\ last_roll.player_id = CurrentPlayerId
  /\ last_roll.turn_number = game.turn_number
  /\ last_roll.streak > 0

\* the player after the current one among the players that are not bankrupt
NextActivePlayerId ==
  LET active_players == ActiveOf(AllIds, players)
      k == CHOOSE j \in 1..Len(active_players) : active_players[j] = CurrentPlayerId
  IN  active_players[(k % Len(active_players)) + 1]

\* C1: within one GameManager instance, END_TURN after the current player's
\* most recent ROLL_DICE of this turn was doubles, the player not being in
\* jail, keeps current_player_index and turn_number and returns PRE_ROLL for
\* the same player; every other END_TURN (two or more active players) passes
\* the turn to the next active player, adds exactly 1 to turn_number, sets the
\* phase to PRE_ROLL and resets the consecutive-doubles counter to 0.
C1_EndTurnRollsAgainOrAdvances ==
  [][Served("end_turn") =>
       IF RolledDoublesThisTurn /\ ~players[CurrentPlayerId].in_jail
         THEN /\ game'.current_player_index = game.current_player_index
              /\ game'.turn_number = game.turn_number
              /\ response'.result.next_phase = "pre_roll"
              /\ CurrentPlayerId' = CurrentPlayerId
         ELSE Len(ActiveOf(AllIds, players)) >= 2 =>
                /\ CurrentPlayerId' = NextActivePlayerId
                /\ game'.turn_number = game.turn_number + 1
                /\ game'.turn_phase = "pre_roll"
                /\ consecutive_doubles' = 0]_vars

\* C2: within one GameManager instance, the ROLL_DICE that is the current
\* player's third consecutive doubles of the turn leaves the player at
\* position 10, in jail with jail_turns 0, not moved by the roll, with no GO
\* salary and no landing effect (cash, cards, every other player and every
\* property unchanged), reports the turn complete and resets the
\* consecutive-doubles counter to 0, whatever the value of the roll.
C2_ThirdDoublesGoesToJail ==
  [][(Served("roll_dice") /\ last_roll'.streak = 3) =>
       LET p == CurrentPlayerId
       IN  /\ players'[p] = [players[p] EXCEPT !.position = JAIL_POSITION,
                                               !.in_jail = TRUE, !.jail_turns = 0]
           /\ \A i \in 1..NumPlayers : i # p => players'[i] = players[i]
           /\ property_states' = property_states
           /\ response'.result.movement = NoMovement
           /\ response'.result.card_effect = NoCardEffect
           /\ response'.result.rent_paid = 0
           /\ response'.result.turn_complete
           /\ consecutive_doubles' = 0]_vars

\* a third consecutive doubles has just sent its roller to jail
C2_Witness ==
  /\ request.action_type = "roll_dice"
  /\ response.status = 200
  /\ last_roll.streak = 3
  /\ players[last_roll.player_id].in_jail
  /\ players[last_roll.player_id].position = JAIL_POSITION

\* C3: through the endpoint, which builds a new GameManager for every request,
\* END_TURN issued right after a doubles ROLL_DICE by a player who is not in
\* jail leaves the current player unchanged and returns phase PRE_ROLL.
C3_EndTurnAfterDoublesAcrossRequests ==
  [][(/\ Served("end_turn")
      /\ request.action_type = "roll_dice"
      /\ response.status = 200
      /\ request.player_id = CurrentPlayerId
      /\ response.result.dice_roll.die1 = response.result.dice_roll.die2
      /\ ~players[CurrentPlayerId].in_jail) =>
       /\ CurrentPlayerId' = CurrentPlayerId
       /\ response'.result.next_phase = "pre_roll"
       /\ game'.turn_phase = "pre_roll"]_vars

\* the step served a ROLL_DICE or a ROLL_FOR_DOUBLES and executed it
ServedRoll == Served("roll_dice") \/ Served("roll_for_doubles")

\* the $50 a third failed ROLL_FOR_DOUBLES charges before the player moves
ForcedFine ==
  IF /\ request'.action_type = "roll_for_doubles"
     /\ response'.result.movement # NoMovement
     /\ response'.result.dice_roll.die1 # response'.result.dice_roll.die2
    THEN JAIL_FINE ELSE 0

\* C4: a movement that passes GO - by ROLL_DICE, by a jail-escape roll or by a
\* move_to / move_to_nearest card - adds exactly $200 to the mover's cash,
\* once: a roll past GO onto a space that charges nothing gains $200, and a
\* card that moves the player past or onto GO gains $200 for that card.
C4_PassingGoPaysSalaryOnce ==
  [][(ServedRoll /\ ~response'.result.bankruptcy) =>
       LET p == CurrentPlayerId
           r == response'.result
           gain == players'[p].cash - players[p].cash
       IN  /\ (/\ r.movement.passed_go
               /\ r.card_effect = NoCardEffect
               /\ r.rent_paid = 0
               /\ get_space_type(r.movement.new_position) # "tax")
                => gain = GO_SALARY - ForcedFine
           /\ r.card_effect.passed_go
                => gain = (IF r.movement.passed_go THEN 2 * GO_SALARY ELSE GO_SALARY)
                          - ForcedFine]_vars

\* C5: an executed request whose action (type and property id) is not among
\* get_valid_actions() of the state it arrives in returns success = false and
\* leaves every player, property and game field unchanged.
C5_InvalidActionChangesNothing ==
  [][(/\ response'.status = 200
      /\ <<request'.action_type, request'.property_id>>
           \notin get_valid_actions(ManagerFor(TRUE))) =>
       /\ ~response'.result.success
       /\ game' = game
       /\ players' = players
       /\ property_states' = property_states]_vars

\* C6: a request whose player_id is not the current player's id is rejected
\* by the endpoint before the engine runs: no game, player, property or
\* event-log state changes.
C6_NotYourTurnRejected ==
  [][(request'.player_id # CurrentPlayerId) =>
       /\ response'.status = 400
       /\ game' = game
       /\ players' = players
       /\ property_states' = property_states
       /\ events' = events]_vars

\* a request of a player whose turn it is not has been answered in a running game
C6_Witness ==
  /\ game.status = "in_progress"
  /\ request.player_id \in (1..NumPlayers) \ {CurrentPlayerId}
  /\ response.status = 400
  /\ events > 0

\* C7: in every state of an in-progress game the stored
\* current_player_index, without any modulo, lies in
\* 0 .. (number of players that are not bankrupt) - 1.
C7_IndexWithinActivePlayers ==
  game.status = "in_progress" =>
    /\ 0 <= game.current_player_index
    /\ game.current_player_index < Len(ActiveOf(AllIds, players))

\* the players that are not bankrupt after the step
Survivors == {i \in 1..NumPlayers : ~players'[i].is_bankrupt}

\* C8: an action result reports game_over exactly when the action leaves
\* exactly one player that is not bankrupt; winner_id is then that player and
\* the game is completed, with that winner, by the same request.
C8_GameOverIffOneSurvivor ==
  [][(response'.status = 200) =>
       /\ response'.result.game_over <=> (Cardinality(Survivors) = 1)
       /\ response'.result.game_over =>
            /\ Survivors = {response'.result.winner_id}
            /\ game'.status = "completed"
            /\ game'.winner_id = response'.result.winner_id]_vars

\* a bankruptcy has just ended the game
C8_Witness ==
  /\ response.status = 200
  /\ response.result.bankruptcy
  /\ response.result.game_over
  /\ game.status = "completed"
  /\ game.winner_id # None
  /\ Cardinality({i \in 1..NumPlayers : ~players[i].is_bankrupt}) = 1

\* C9: a bankrupt player stays bankrupt, is never the current player, owns no
\* property, and has no further change of cash, position, jail state or cards.
C9_BankruptIsOut ==
  [][\A i \in 1..NumPlayers :
       /\ players[i].is_bankrupt => players'[i] = players[i]
       /\ players'[i].is_bankrupt =>
            /\ CurrentPlayerId' # i
            /\ \A pid \in ALL_PROPERTY_IDS : property_states'[pid].owner_id # i]_vars

\* a card that pays every other player has been drawn while a player is bankrupt
C9_Witness ==
  /\ response.status = 200
  /\ ~response.result.bankruptcy
  /\ \E i \in 1..NumPlayers : response.result.card_effect.payments_to_players[i] > 0
  /\ \E i \in 1..NumPlayers : players[i].is_bankrupt /\ i # request.player_id

\* the property the roll of the step ends on, "none" if it ends on none
LandedProperty ==
  IF response'.result.movement = NoMovement
       \/ response'.result.card_effect # NoCardEffect
       \/ response'.result.movement.landed_on_go_to_jail
    THEN "none"
    ELSE get_property_id_at_position(response'.result.movement.new_position)

\* C10: when the current player lands on a property owned by another player
\* with cash below the rent, the owner's cash is unchanged, the player is
\* bankrupt with cash 0, every property the player owned now belongs to that
\* owner with its houses unchanged, and no other property changes.
C10_BankruptcyToOwner ==
  [][(ServedRoll /\ LandedProperty # "none") =>
       LET p == CurrentPlayerId
           owner == property_states[LandedProperty].owner_id
           rent == calculate_rent(LandedProperty, property_states,
                                  total(response'.result.dice_roll))
           cash == players[p].cash
                   + (IF response'.result.movement.passed_go THEN GO_SALARY ELSE 0)
                   - ForcedFine
       IN  (owner # None /\ owner # p /\ cash < rent) =>
             /\ players'[owner] = players[owner]
             /\ players'[p].is_bankrupt
             /\ players'[p].cash = 0
             /\ \A pid \in ALL_PROPERTY_IDS :
                  property_states'[pid] =
                    IF property_states[pid].owner_id = p
                      THEN [property_states[pid] EXCEPT !.owner_id = owner]
                      ELSE property_states[pid]]_vars

\* a player that owned built properties went bankrupt on another player's
\* property, and the owner holds them with their houses
C10_Witness ==
  /\ response.status = 200
  /\ response.result.bankruptcy
  /\ request.player_id = 1
  /\ players[1].is_bankrupt
  /\ get_property_id_at_position(players[1].position) = "park_place"
  /\ property_states["park_place"].owner_id = 2
  /\ property_states["mediterranean"] = [owner_id |-> 2, houses |-> 4]
  /\ property_states["baltic"] = [owner_id |-> 2, houses |-> 4]

\* the cash the roll of the step leaves its player with on arrival, before the
\* space landed on takes effect
CashOnArrival ==
  players[request'.player_id].cash
  + (IF response'.result.movement.passed_go THEN GO_SALARY ELSE 0)
  - ForcedFine

\* the effect of the card the roll of the step drew on arrival
DrawnCardEffect ==
  LET p == request'.player_id
      position == response'.result.movement.new_position
      arrived == [players EXCEPT ![p] = [@ EXCEPT !.position = position,
                                                  !.cash = CashOnArrival,
                                                  !.in_jail = FALSE,
                                                  !.jail_turns = 0]]
  IN  IF get_space_type(position) = "chance"
        THEN execute_chance_card(card_drawn', arrived[p], ActiveOf(AllIds, players),
                                 arrived, property_states)
        ELSE execute_community_chest_card(card_drawn', arrived[p],
                                          ActiveOf(AllIds, players), arrived,
                                          property_states)

\* the roll of the step ends on a tax space whose amount exceeds the player's cash
TaxUnpayable ==
  /\ ServedRoll
  /\ response'.result.movement.present
  /\ ~response'.result.movement.landed_on_go_to_jail
  /\ get_space_type(response'.result.movement.new_position) = "tax"
  /\ CashOnArrival < get_tax_amount(response'.result.movement.new_position)

\* the roll of the step draws a card whose payment exceeds the player's cash
CardPaymentUnpayable ==
  /\ ServedRoll
  /\ card_drawn' # None
  /\ ~DrawnCardEffect.go_to_jail
  /\ DrawnCardEffect.cash_change < 0
  /\ CashOnArrival + (IF DrawnCardEffect.passed_go THEN GO_SALARY ELSE 0)
       < 0 - DrawnCardEffect.cash_change

\* the step is a third failed ROLL_FOR_DOUBLES of a player without the fine
ForcedFineUnpayable ==
  /\ Served("roll_for_doubles")
  /\ players[request'.player_id].in_jail
  /\ players[request'.player_id].jail_turns >= MAX_JAIL_TURNS - 1
  /\ ~is_doubles(response'.result.dice_roll)
  /\ players[request'.player_id].cash < JAIL_FINE

\* C11: when a player cannot cover a debt owed to the bank - a tax, a card
\* payment or the forced jail fine - the player becomes bankrupt with cash 0,
\* every property the player owned ends with no owner and no houses, and the
\* other players' properties are unchanged.
C11_BankruptcyToBank ==
  [][(TaxUnpayable \/ CardPaymentUnpayable \/ ForcedFineUnpayable) =>
       LET p == request'.player_id
       IN  /\ players'[p].is_bankrupt
           /\ players'[p].cash = 0
           /\ response'.result.bankruptcy
           /\ \A pid \in ALL_PROPERTY_IDS :
                property_states'[pid] =
                  IF property_states[pid].owner_id = p
                    THEN [owner_id |-> None, houses |-> 0]
                    ELSE property_states[pid]]_vars

\* a card payment has bankrupted the owner of the built brown properties, which
\* went back to the bank without their houses
C11_Witness ==
  /\ response.status = 200
  /\ response.result.bankruptcy
  /\ request.player_id = 1
  /\ card_drawn # None
  /\ players[1].is_bankrupt
  /\ players[1].cash = 0
  /\ property_states["mediterranean"] = [owner_id |-> None, houses |-> 0]
  /\ property_states["baltic"] = [owner_id |-> None, houses |-> 0]
  /\ property_states["park_place"].owner_id = 2

\* other ways into the bank's bankruptcy: an unpayable tax, an unpayable forced fine
C11_WitnessTax ==
  /\ response.status = 200
  /\ response.result.bankruptcy
  /\ players[request.player_id].is_bankrupt
  /\ get_space_type(response.result.movement.new_position) = "tax"
  /\ response.result.movement.present

C11_WitnessFine ==
  /\ response.status = 200
  /\ response.result.bankruptcy
  /\ request.action_type = "roll_for_doubles"
  /\ players[request.player_id].is_bankrupt
  /\ ~response.result.movement.present

\* C12: when a roll lands the current player on a property owned by another
\* player and the player's cash covers the rent, the player's cash decreases
\* by exactly calculate_rent, the owner's cash increases by the same amount and
\* the next phase is POST_ROLL; landing on the player's own property changes
\* nobody's cash.
C12_RentPaidToOwner ==
  [][(ServedRoll /\ LandedProperty # "none") =>
       LET p == request'.player_id
           owner == property_states[LandedProperty].owner_id
           rent == calculate_rent(LandedProperty, property_states,
                                  total(response'.result.dice_roll))
       IN  /\ (owner # None /\ owner # p /\ CashOnArrival >= rent) =>
                /\ players'[p].cash = CashOnArrival - rent
                /\ players'[owner].cash = players[owner].cash + rent
                /\ response'.result.next_phase = "post_roll"
                /\ game'.turn_phase = "post_roll"
                /\ \A i \in 1..NumPlayers \ {p, owner} :
                     players'[i].cash = players[i].cash
           /\ owner = p =>
                /\ players'[p].cash = CashOnArrival
                /\ \A i \in 1..NumPlayers \ {p} : players'[i].cash = players[i].cash]_vars

\* rent on a doubled colour group has just been paid to its owner
C12_Witness ==
  /\ response.status = 200
  /\ response.result.rent_paid = 70
  /\ response.result.rent_to_player = 2
  /\ request.player_id = 1
  /\ players[1].cash = STARTING_CASH - 70
  /\ players[2].cash \in {30 + 70, STARTING_CASH + 70}
  /\ game.turn_phase = "post_roll"

\* a player has just landed on their own property
C12_WitnessOwn ==
  /\ response.status = 200
  /\ response.result.movement.present
  /\ response.result.card_effect = NoCardEffect
  /\ get_property_id_at_position(response.result.movement.new_position) # "none"
  /\ property_states[get_property_id_at_position(
                       response.result.movement.new_position)].owner_id
       = request.player_id
  /\ game.turn_phase = "post_roll"

\* C13: after every completed action of a game played with valid actions,
\* every player's cash is at least 0.
C13_CashNeverNegative ==
  \A i \in 1..NumPlayers : players[i].cash >= 0

\* a player with $40 has just paid for a card and stays solvent
C13_Witness ==
  /\ response.status = 200
  /\ response.result.card_effect.cash_change < 0
  /\ ~response.result.bankruptcy
  /\ request.player_id = 1
  /\ players[1].cash < 40
  /\ players[1].cash >= 0
  /\ ~players[1].is_bankrupt

\* C14: in every reachable state each property has 0 <= houses <= 5,
\* railroads and utilities have no houses, and every property with houses has
\* an owner who owns every property of its colour group.
C14_HousesWithinOwnedGroups ==
  \A pid \in ALL_PROPERTY_IDS :
    /\ property_states[pid].houses \in 0..5
    /\ pid \in RAILROAD_IDS \cup UTILITY_IDS => property_states[pid].houses = 0
    /\ property_states[pid].houses > 0 =>
         /\ property_states[pid].owner_id # None
         /\ PROPERTIES[pid].type = "street"
         /\ \A sibling \in COLOR_GROUPS[PROPERTIES[pid].color] :
              property_states[sibling].owner_id = property_states[pid].owner_id

\* a hotel has just been built on a group whose owner holds all of it
C14_Witness ==
  /\ response.status = 200
  /\ response.result.success
  /\ request.action_type = "build_hotel"
  /\ property_states["mediterranean"] = [owner_id |-> 1, houses |-> 4]
  /\ property_states["baltic"] = [owner_id |-> 1, houses |-> 5]

\* C15: a house is added only to a property whose house count is minimal in
\* its colour group, and in every reachable state the house counts of the
\* properties of one colour group differ by at most 1.
C15_EvenBuilding ==
  [][/\ (Served("build_house") /\ response'.result.success) =>
          \A sibling \in COLOR_GROUPS[PROPERTIES[request'.property_id].color] :
            property_states[sibling].houses
              >= property_states[request'.property_id].houses
     /\ \A pid \in ALL_PROPERTY_IDS :
          PROPERTIES[pid].type = "street" =>
            \A sibling \in COLOR_GROUPS[PROPERTIES[pid].color] :
              property_states'[pid].houses - property_states'[sibling].houses <= 1]_vars

\* a first house has just been added to a dark blue property
C15_Witness ==
  /\ response.status = 200
  /\ response.result.success
  /\ request.action_type = "build_house"
  /\ request.property_id = "park_place"
  /\ property_states["park_place"].houses = 1
  /\ property_states["boardwalk"].houses = 0

\* the step served a BUILD_HOTEL that names a street
ServedHotelOnStreet ==
  /\ Served("build_hotel")
  /\ request'.property_id \in ALL_PROPERTY_IDS
  /\ PROPERTIES[request'.property_id].type = "street"

\* what a served BUILD_HOTEL does, given the condition it may succeed under
BuildHotelEffect(allowed) ==
  LET p == request'.player_id
      pid == request'.property_id
  IN  /\ response'.result.success =>
           /\ allowed
           /\ players[p].cash >= PROPERTIES[pid].house_cost
           /\ property_states' = [property_states EXCEPT ![pid].houses = 5]
           /\ players' = [players EXCEPT ![p].cash = @ - PROPERTIES[pid].house_cost]
      /\ ~response'.result.success =>
           /\ players' = players
           /\ property_states' = property_states
           /\ game' = game

\* C16 as stated: BUILD_HOTEL on a street succeeds only if the player owns the
\* whole colour group, every property of the group (the target included) has
\* exactly 4 houses and the cash covers house_cost; on success the target has
\* 5 houses and the cash decreases by house_cost; on failure nothing changes.
C16_HotelNeedsFourHousesEverywhere ==
  [][ServedHotelOnStreet =>
       BuildHotelEffect(
         \A pid \in COLOR_GROUPS[PROPERTIES[request'.property_id].color] :
           /\ property_states[pid].owner_id = request'.player_id
           /\ property_states[pid].houses = 4)]_vars

\* C16 amended: BUILD_HOTEL on a street succeeds only if the player owns the
\* whole colour group, the target has exactly 4 houses, every other property
\* of the group has at least 4 (4 houses or a hotel) and the cash covers
\* house_cost; on success the target has 5 houses and the cash decreases by
\* house_cost; on failure nothing changes.
C16_HotelNeedsFourHousesOrHotels ==
  [][ServedHotelOnStreet =>
       BuildHotelEffect(
         /\ property_states[request'.property_id].houses = 4
         /\ \A pid \in COLOR_GROUPS[PROPERTIES[request'.property_id].color] :
              /\ property_states[pid].owner_id = request'.player_id
              /\ property_states[pid].houses >= 4)]_vars

\* a hotel has just been built next to a hotel
C16_Witness ==
  /\ response.status = 200
  /\ response.result.success
  /\ request.action_type = "build_hotel"
  /\ request.property_id = "mediterranean"
  /\ property_states["mediterranean"] = [owner_id |-> 1, houses |-> 5]
  /\ property_states["baltic"] = [owner_id |-> 1, houses |-> 5]
  /\ players[1].cash < STARTING_CASH

\* a BUILD_HOTEL on a street has just been refused
C16_WitnessRefused ==
  /\ response.status = 200
  /\ ~response.result.success
  /\ request.action_type = "build_hotel"
  /\ request.property_id \in {"mediterranean", "baltic", "park_place"}

\* the step served the ROLL_FOR_DOUBLES of a jailed player
ServedEscapeRoll ==
  /\ Served("roll_for_doubles")
  /\ players[request'.player_id].in_jail

\* the player of the step is out of jail, or was sent there anew by the card
\* drawn on arrival
Released ==
  /\ players'[request'.player_id].jail_turns = 0
  /\ players'[request'.player_id].in_jail => response'.result.card_effect.go_to_jail

\* the roll of the step moved its player by the roll total
MovedByRollTotal ==
  /\ response'.result.movement.present
  /\ response'.result.movement.new_position
       = (players[request'.player_id].position + total(response'.result.dice_roll))
           % BOARD_SIZE

\* C17: a ROLL_FOR_DOUBLES that is not doubles while jail_turns = 2 releases
\* the player by forced payment: with cash >= 50 exactly $50 is deducted before
\* the player moves by the roll total; with cash < 50 the player becomes
\* bankrupt to the bank and is not moved.  With jail_turns < 2 the player stays
\* in jail, jail_turns grows by 1 and the turn ends.  No player is still in
\* jail after the third attempt.
C17_ThirdAttemptForcesPayment ==
  [][(ServedEscapeRoll /\ ~is_doubles(response'.result.dice_roll)) =>
       LET p == request'.player_id
       IN  IF players[p].jail_turns >= MAX_JAIL_TURNS - 1
             THEN IF players[p].cash >= JAIL_FINE
                    THEN /\ Released
                         /\ MovedByRollTotal
                         /\ CashOnArrival = players[p].cash - JAIL_FINE
                         /\ response'.result.next_phase = "awaiting_buy_decision"
                              => players'[p].cash = players[p].cash - JAIL_FINE
                    ELSE /\ response'.result.bankruptcy
                         /\ players'[p] = [players[p] EXCEPT !.is_bankrupt = TRUE,
                                                             !.cash = 0,
                                                             !.in_jail = FALSE,
                                                             !.jail_turns = 0]
                         /\ ~response'.result.movement.present
             ELSE /\ players'[p] = [players[p] EXCEPT !.jail_turns = @ + 1]
                  /\ ~response'.result.movement.present
                  /\ response'.result.turn_complete
                  /\ game'.turn_phase = "post_roll"]_vars

\* a third attempt without doubles has cost $50 and moved the player out of jail
C17_Witness ==
  /\ response.status = 200
  /\ request.action_type = "roll_for_doubles"
  /\ request.player_id = 2
  /\ ~is_doubles(response.result.dice_roll)
  /\ response.result.movement.present
  /\ players[2].cash = STARTING_CASH - JAIL_FINE
  /\ ~players[2].in_jail
  /\ players[2].position # JAIL_POSITION

\* an attempt without doubles before the third has left the player in jail
C17_WitnessStays ==
  /\ response.status = 200
  /\ request.action_type = "roll_for_doubles"
  /\ ~is_doubles(response.result.dice_roll)
  /\ players[2].in_jail
  /\ players[2].jail_turns = 1

\* the card drawn after a forced payment has sent the player back to jail
C17_WitnessJailedAnew ==
  /\ response.status = 200
  /\ request.action_type = "roll_for_doubles"
  /\ ~is_doubles(response.result.dice_roll)
  /\ response.result.card_effect.go_to_jail
  /\ players[2].in_jail
  /\ players[2].jail_turns = 0
  /\ players[2].cash = STARTING_CASH - JAIL_FINE

\* C18: a doubles roll made with ROLL_FOR_DOUBLES by a jailed player frees the
\* player at no cost, moves the player by the roll total with the normal
\* landing effect, and leaves the consecutive-doubles counter unchanged.
C18_DoublesEscapeIsFree ==
  [][(ServedEscapeRoll /\ is_doubles(response'.result.dice_roll)) =>
       LET p == request'.player_id
       IN  /\ Released
           /\ MovedByRollTotal
           /\ players'[p].position = response'.result.movement.new_position
                \/ response'.result.card_effect # NoCardEffect
           /\ consecutive_doubles' = consecutive_doubles
           /\ LandedProperty # "none" =>
                /\ property_states[LandedProperty].owner_id = None =>
                     /\ players'[p].cash = players[p].cash
                     /\ game'.turn_phase = "awaiting_buy_decision"
                /\ property_states[LandedProperty].owner_id = p =>
                     /\ players'[p].cash = players[p].cash
                     /\ game'.turn_phase = "post_roll"]_vars

\* doubles have just taken a player out of jail onto an unowned property
C18_Witness ==
  /\ response.status = 200
  /\ request.action_type = "roll_for_doubles"
  /\ request.player_id = 2
  /\ is_doubles(response.result.dice_roll)
  /\ ~players[2].in_jail
  /\ players[2].jail_turns = 0
  /\ players[2].position = JAIL_POSITION + total(response.result.dice_roll)
  /\ game.turn_phase = "awaiting_buy_decision"
  /\ players[2].cash = STARTING_CASH

\* the action types get_valid_actions offers the current player
OfferedTypes == {action[1] : action \in get_valid_actions(ManagerFor(TRUE))}

\* C19: at the start of the turn (PRE_ROLL or AWAITING_ROLL) of a jailed
\* current player get_valid_actions offers PAY_JAIL_FINE iff cash >= 50,
\* USE_JAIL_CARD iff the player holds a jail card, ROLL_FOR_DOUBLES always and
\* never ROLL_DICE; for a current player who is not in jail it offers exactly
\* ROLL_DICE.
C19_ActionsAtStartOfTurn ==
  game.turn_phase \in {"pre_roll", "awaiting_roll"} =>
    LET player == players[CurrentPlayerId]
    IN  IF player.in_jail
          THEN /\ "pay_jail_fine" \in OfferedTypes <=> player.cash >= JAIL_FINE
               /\ "use_jail_card" \in OfferedTypes <=> player.get_out_of_jail_cards > 0
               /\ "roll_for_doubles" \in OfferedTypes
               /\ "roll_dice" \notin OfferedTypes
               /\ OfferedTypes \subseteq
                    {"pay_jail_fine", "use_jail_card", "roll_for_doubles"}
          ELSE OfferedTypes = {"roll_dice"}

\* the turn has just passed to a jailed player who can neither pay nor use a card
C19_Witness ==
  /\ response.status = 200
  /\ request.action_type = "end_turn"
  /\ game.turn_phase = "pre_roll"
  /\ players[CurrentPlayerId].in_jail
  /\ players[CurrentPlayerId].cash < JAIL_FINE
  /\ OfferedTypes = {"roll_for_doubles"}

\* the turn has just passed to a jailed player who holds a card and the fine
C19_WitnessAll ==
  /\ response.status = 200
  /\ request.action_type = "end_turn"
  /\ game.turn_phase = "pre_roll"
  /\ players[CurrentPlayerId].in_jail
  /\ OfferedTypes = {"pay_jail_fine", "use_jail_card", "roll_for_doubles"}

\* C20: in AWAITING_BUY_DECISION with the current player on an unowned
\* property get_valid_actions always offers PASS_PROPERTY, whether or not the
\* player can afford the property, and offers BUY_PROPERTY exactly when
\* cash >= price; when the space is owned or is not a property it returns the
\* single action END_TURN.
C20_PassAlwaysOffered ==
  game.turn_phase = "awaiting_buy_decision" =>
    LET player == players[CurrentPlayerId]
        property_id == get_property_id_at_position(player.position)
    IN  IF property_id # "none" /\ property_states[property_id].owner_id = None
          THEN /\ "pass_property" \in OfferedTypes
               /\ "buy_property" \in OfferedTypes
                    <=> player.cash >= PROPERTIES[property_id].price
          ELSE get_valid_actions(ManagerFor(TRUE)) = {<<"end_turn", "none">>}

\* the changes of phase the turn state machine allows
PhaseSteps ==
  {<<"pre_roll", "awaiting_jail_decision">>,
   <<"pre_roll", "awaiting_roll">>,
   <<"awaiting_roll", "awaiting_buy_decision">>,
   <<"awaiting_roll", "post_roll">>,
   <<"awaiting_buy_decision", "post_roll">>,
   <<"post_roll", "pre_roll">>}

\* C21: the persisted turn phase changes only along PRE_ROLL ->
\* AWAITING_JAIL_DECISION (current player in jail), PRE_ROLL -> AWAITING_ROLL,
\* AWAITING_ROLL -> AWAITING_BUY_DECISION or POST_ROLL (by a roll),
\* AWAITING_BUY_DECISION -> POST_ROLL and POST_ROLL -> PRE_ROLL; every jail
\* decision is taken in AWAITING_JAIL_DECISION and every dice roll in
\* AWAITING_ROLL.
C21_PhaseTransitions ==
  [][/\ game'.turn_phase # game.turn_phase =>
          /\ <<game.turn_phase, game'.turn_phase>> \in PhaseSteps
          /\ game'.turn_phase = "awaiting_jail_decision"
               => players[CurrentPlayerId].in_jail
          /\ game.turn_phase = "awaiting_roll" => ServedRoll
     /\ (Served("pay_jail_fine") \/ Served("use_jail_card")
           \/ Served("roll_for_doubles"))
          => game.turn_phase = "awaiting_jail_decision"
     /\ Served("roll_dice") => game.turn_phase = "awaiting_roll"]_vars

\* C22: the consecutive-doubles counter counts only doubles rolled by the
\* current player in the current turn: whenever the turn passes to another
\* player - by END_TURN or because the current player went bankrupt - the
\* counter is 0, and a ROLL_DICE sends its player to jail under the
\* three-doubles rule only as that player's own third doubles of the turn.
C22_CounterBelongsToCurrentTurn ==
  [][/\ CurrentPlayerId' # CurrentPlayerId => consecutive_doubles' = 0
     /\ (/\ Served("roll_dice")
         /\ response'.result.movement = NoMovement
         /\ players'[request'.player_id].in_jail) => last_roll'.streak = 3]_vars

\* the deck of the space the served roll took the player to
DeckLandedOn ==
  get_space_type(players[request'.player_id].position
                   + total(response'.result.dice_roll))

\* C23: a card drawn on landing on Chance or Community Chest is the one at the
\* deck's current_index in its shuffled card_order, and the draw advances
\* current_index by one, wrapping from 15 to 0 (so the draws of a deck cycle
\* through its order and 16 consecutive draws hold each card once).
C23_DrawsFollowDeckOrder ==
  [][card_drawn' # None =>
       LET deck == card_decks[DeckLandedOn]
       IN  /\ card_drawn' = deck.card_order[deck.current_index + 1]
           /\ card_decks'[DeckLandedOn].current_index
                = (deck.current_index + 1) % NumCards]_vars

\* C24: a card that moves the player to the nearest railroad or utility makes
\* the player pay the special rent to the owner when the destination belongs
\* to another player - twice the railroad rent, or ten times the dice total on
\* a utility - and no rent when the destination is unowned or the player's own.
C24_NearestCardRent ==
  [][(/\ response'.status = 200
      /\ response'.result.card_effect.special_rent_multiplier # 0) =>
       LET effect == response'.result.card_effect
           player_id == request'.player_id
           property_id == get_property_id_at_position(effect.new_position)
           owner_id == get_owner_id(property_id, property_states)
           special_rent ==
             IF effect.special_rent_multiplier = 2
               THEN 2 * calculate_railroad_rent(property_states, owner_id)
               ELSE 10 * total(response'.result.dice_roll)
       IN  IF owner_id # None /\ owner_id # player_id
             THEN /\ response'.result.rent_paid = special_rent
                  /\ response'.result.rent_to_player = owner_id
             ELSE response'.result.rent_paid = 0]_vars

\* C25: BUY_PROPERTY succeeds exactly when the property exists, is unowned and
\* the player's cash covers its price; a success takes the price from the
\* player's cash, makes the player the owner, moves the phase to POST_ROLL and
\* changes nothing else; a failure changes nothing.
C25_BuyProperty ==
  [][Served("buy_property") =>
       LET p == request'.player_id
           property_id == request'.property_id
           allowed == /\ property_id \in ALL_PROPERTY_IDS
                      /\ property_states[property_id].owner_id = None
                      /\ players[p].cash >= PROPERTIES[property_id].price
       IN  /\ response'.result.success <=> allowed
           /\ IF allowed
                THEN /\ players' = [players EXCEPT
                                      ![p].cash = @ - PROPERTIES[property_id].price]
                     /\ property_states' = [property_states EXCEPT
                                              ![property_id].owner_id = p]
                     /\ game' = [game EXCEPT !.turn_phase = "post_roll"]
                ELSE UNCHANGED <<game, players, property_states>>]_vars

\* a purchase was made
C25_Witness ==
  /\ request.action_type = "buy_property"
  /\ response.status = 200
  /\ response.result.success
  /\ property_states[request.property_id].owner_id = request.player_id

\* a purchase was refused for want of cash
C25_WitnessRefused ==
  /\ request.action_type = "buy_property"
  /\ response.status = 200
  /\ ~response.result.success
  /\ request.property_id \in ALL_PROPERTY_IDS
  /\ property_states[request.property_id].owner_id = None
  /\ players[request.player_id].cash < PROPERTIES[request.property_id].price

\* a purchase of an owned property was refused
C25_WitnessOwned ==
  /\ request.action_type = "buy_property"
  /\ response.status = 200
  /\ ~response.result.success
  /\ request.property_id \in ALL_PROPERTY_IDS
  /\ property_states[request.property_id].owner_id \notin {None, request.player_id}

C27_MovePlayer ==
  (call.fn = "move_player" /\ call.done) =>
    LET p == call.args[1]
        s == call.args[2]
    IN  /\ returned.new_position = (p + s) % BOARD_SIZE
        /\ returned.passed_go = (s > 0 /\ p + s >= BOARD_SIZE)

\* C28: move_to_position(p, d) returns new_position d, and passed_go exactly
\* when d < p and d is not the jail position: a direct move to position 10
\* never passes GO.
C28_MoveToPosition ==
  (call.fn = "move_to_position" /\ call.done) =>
    LET p == call.args[1]
        d == call.args[2]
    IN  /\ returned.new_position = d
        /\ returned.passed_go = (d < p /\ d # JAIL_POSITION)
        /\ d = JAIL_POSITION => ~returned.passed_go

\* a direct move back to the jail position, from beyond it
C28_Witness ==
  /\ call = [fn |-> "move_to_position", args |-> <<30, JAIL_POSITION>>, done |-> TRUE]
  /\ ~returned.passed_go

\* a direct move that wraps past GO
C28_WitnessPassedGo ==
  /\ call = [fn |-> "move_to_position", args |-> <<36, 5>>, done |-> TRUE]
  /\ returned.passed_go

\* the property a returned calculate_rent call was about
RentedProperty == call.args[1]

\* C29: the rent of an owned street with no houses is its base rent, doubled
\* when the owner holds the whole colour group; with h houses (5 = hotel) it
\* is the h-th entry of its rent schedule, never doubled; an unowned street
\* yields 0.
C29_StreetRent ==
  (/\ call.fn = "calculate_rent"
   /\ call.done
   /\ PROPERTIES[RentedProperty].type = "street") =>
    LET prop == PROPERTIES[RentedProperty]
        state == property_states[RentedProperty]
        partial == \E pid \in COLOR_GROUPS[prop.color] :
                     property_states[pid].owner_id # state.owner_id
    IN  /\ state.owner_id = None => returned = 0
        /\ (state.owner_id # None /\ state.houses = 0 /\ partial) =>
              returned = prop.rent[1]
        /\ (state.owner_id # None /\ state.houses = 0 /\ ~partial) =>
              returned = 2 * prop.rent[1]
        /\ (state.owner_id # None /\ state.houses \in 1..5) =>
              returned = prop.rent[state.houses + 1]

\* the rent of a street with three houses in a group owned whole
C29_Witness ==
  /\ call = [fn |-> "calculate_rent", args |-> <<"baltic", 2 * MaxFace>>, done |-> TRUE]
  /\ property_states["baltic"] = [owner_id |-> 1, houses |-> 3]
  /\ property_states["mediterranean"].owner_id = 1
  /\ returned = PROPERTIES["baltic"].rent[4]

\* the doubled rent of an unbuilt street in a group owned whole
C29_WitnessDoubled ==
  /\ call.fn = "calculate_rent"
  /\ call.done
  /\ RentedProperty = "mediterranean"
  /\ property_states["mediterranean"] = [owner_id |-> 2, houses |-> 0]
  /\ property_states["baltic"].owner_id = 2
  /\ returned = 2 * PROPERTIES["mediterranean"].rent[1]

\* the base rent of a street in a group owned in part
C29_WitnessPartial ==
  /\ call.fn = "calculate_rent"
  /\ call.done
  /\ RentedProperty = "mediterranean"
  /\ property_states["mediterranean"].owner_id = 2
  /\ property_states["baltic"].owner_id = 1
  /\ returned = PROPERTIES["mediterranean"].rent[1]

\* C30: the rent of a railroad whose owner holds n of the four railroads is
\* 25 * 2^(n-1) - 25, 50, 100, 200 - counting that owner's railroads only.
C30_RailroadRent ==
  (/\ call.fn = "calculate_rent"
   /\ call.done
   /\ RentedProperty \in RAILROAD_IDS
   /\ property_states[RentedProperty].owner_id # None) =>
    LET owner_id == property_states[RentedProperty].owner_id
        n == Cardinality({pid \in RAILROAD_IDS :
                            property_states[pid].owner_id = owner_id})
    IN  /\ n \in 1..4
        /\ returned = <<25, 50, 100, 200>>[n]

\* the rent of a railroad whose owner holds two, another player the other two
C30_Witness ==
  /\ call = [fn |-> "calculate_rent", args |-> <<"reading_rr", 2 * MaxFace>>, done |-> TRUE]
  /\ property_states["reading_rr"].owner_id = 1
  /\ property_states["bo_rr"].owner_id = 1
  /\ property_states["pennsylvania_rr"].owner_id = 2
  /\ property_states["short_line_rr"].owner_id = 2
  /\ returned = 50

\* C31: the rent of a utility is 4 x the dice total when its owner holds that
\* utility alone and 10 x the dice total when the owner holds both; a call
\* without a dice total is charged on a total of 7.
C31_UtilityRent ==
  (/\ call.fn = "calculate_rent"
   /\ call.done
   /\ RentedProperty \in UTILITY_IDS
   /\ property_states[RentedProperty].owner_id # None) =>
    LET owner_id == property_states[RentedProperty].owner_id
        both == \A pid \in UTILITY_IDS : property_states[pid].owner_id = owner_id
        dice_total == IF call.args[2] = None THEN 7 ELSE call.args[2]
    IN  returned = (IF both THEN 10 ELSE 4) * dice_total

\* the rent of one utility of two held together, no dice total supplied
C31_Witness ==
  /\ call = [fn |-> "calculate_rent", args |-> <<"water_works", None>>, done |-> TRUE]
  /\ \A pid \in UTILITY_IDS : property_states[pid].owner_id = 2
  /\ returned = 70

\* the rent of a utility held alone, on a roll of 3
C31_WitnessOne ==
  /\ call = [fn |-> "calculate_rent", args |-> <<"electric_company", 3>>, done |-> TRUE]
  /\ property_states["electric_company"].owner_id = 1
  /\ property_states["water_works"].owner_id = 2
  /\ returned = 12

\* C32: a completed game is final - its status, and with it every game,
\* player and property row, never changes again, every later request for the
\* valid actions or for an action is refused, and winner_id is the one player
\* that is not bankrupt.
C32_CompletedIsTerminal ==
  [][game.status = "completed" =>
       /\ UNCHANGED <<game, players, property_states>>
       /\ response'.status = 400
       /\ Survivors = {game.winner_id}]_vars

\* a request made of a completed game
C32_Witness ==
  /\ game.status = "completed"
  /\ response.status = 400
  /\ request.action_type = "end_turn"
  /\ {i \in 1..NumPlayers : ~players[i].is_bankrupt} = {game.winner_id}

\* the valid actions asked of a completed game
C32_WitnessQuery ==
  /\ game.status = "completed"
  /\ response.status = 400
  /\ request.action_type = "get_valid_actions"

\* the first player after the given one, cyclically in player order, that is
\* not bankrupt once the step is taken
FirstActiveAfter(player_id) ==
  LET ahead == {d \in 1..NumPlayers :
                  ~players'[((player_id - 1 + d) % NumPlayers) + 1].is_bankrupt}
      d == CHOOSE e \in ahead : \A f \in ahead : e <= f
  IN  ((player_id - 1 + d) % NumPlayers) + 1

\* the step ends the current player's turn: an END_TURN that passes the turn
\* on, or the current player's bankruptcy, with the game still in progress
TurnEnds ==
  /\ response'.status = 200
  /\ game'.status = "in_progress"
  /\ \/ Served("end_turn") /\ response'.result.turn_complete
     \/ response'.result.bankruptcy

\* C33: the turn passes in seating order over the players that are not
\* bankrupt - when a turn ends, by END_TURN or by the current player's
\* bankruptcy, the next current player is the first non-bankrupt player after
\* the previous one in player order, cyclically, so that nobody is skipped.
C33_TurnOrderFollowsSeating ==
  [][TurnEnds => CurrentPlayerId' = FirstActiveAfter(CurrentPlayerId)]_vars

\* C34: the player in whose name the game loop submits an action -
\* players[current_player_index] of the fetched state, which lists all the
\* players - is the player the engine takes as current, so that no submitted
\* action is refused for turn ownership, bankruptcies included.
C34_LoopActsForCurrentPlayer ==
  [][/\ request'.player_id = CurrentPlayerId
     /\ response'.status # 400]_vars

\* C35: while a game is in progress get_valid_actions offers the current
\* player at least one action, whatever the phase, the cash, the position and
\* the jail state: the game is never stuck.
C35_SomeActionOffered ==
  game.status = "in_progress" => get_valid_actions(ManagerFor(TRUE)) # {}

\* a jailed current player without the cash for the fine and without a card,
\* on the third attempt, reached by play: the escape roll is all that is offered
C35_Witness ==
  /\ game.status = "in_progress"
  /\ events > 0
  /\ players[CurrentPlayerId].in_jail
  /\ players[CurrentPlayerId].cash < JAIL_FINE
  /\ players[CurrentPlayerId].get_out_of_jail_cards = 0
  /\ players[CurrentPlayerId].jail_turns = 2
  /\ get_valid_actions(ManagerFor(TRUE)) = {<<"roll_for_doubles", "none">>}

\* C36: every action get_valid_actions returns in a state - its type with its
\* property id - returns success = true when execute_action is given it in
\* that state.
C36_OfferedActionsSucceed ==
  (/\ response.status \notin {0, 400}
   /\ request.action_type # "get_valid_actions"
   /\ strays = 0) =>
    /\ response.status = 200
    /\ response.result.success

\* an offered BUILD_HOTEL was executed
C36_Witness ==
  /\ request.action_type = "build_hotel"
  /\ strays = 0
  /\ response.status = 200
  /\ response.result.success
  /\ property_states[request.property_id].houses = 5

\* C37: in a game played with valid actions a player with in_jail set stands
\* at position 10, jail_turns is 0, 1 or 2, and jail_turns is above 0 only
\* while the player is in jail (it is reset on every entry and every exit).
C37_JailState ==
  \A i \in 1..NumPlayers :
    /\ players[i].in_jail => players[i].position = JAIL_POSITION
    /\ players[i].jail_turns \in {0, 1, 2}
    /\ players[i].jail_turns > 0 => players[i].in_jail

\* a failed escape roll left the player in jail with one turn counted
C37_Witness ==
  /\ request.action_type = "roll_for_doubles"
  /\ response.status = 200
  /\ players[request.player_id].in_jail
  /\ players[request.player_id].jail_turns = 1
  /\ players[request.player_id].position = JAIL_POSITION

\* the third attempt released the player, jail_turns back at 0
C37_WitnessReleased ==
  /\ request.action_type = "roll_for_doubles"
  /\ response.status = 200
  /\ ~is_doubles(response.result.dice_roll)
  /\ ~players[request.player_id].is_bankrupt
  /\ ~players[request.player_id].in_jail
  /\ players[request.player_id].jail_turns = 0

\* a roll ended on Go To Jail and jailed the player anew
C37_WitnessEntry ==
  /\ request.action_type = "roll_dice"
  /\ response.status = 200
  /\ response.result.movement.landed_on_go_to_jail
  /\ players[request.player_id].in_jail
  /\ players[request.player_id].jail_turns = 0

\* the cash of all the players together
TotalCash(ps) == SumOver([i \in 1..NumPlayers |-> ps[i].cash], 1..NumPlayers)

\* the roll of the step drew a card that pays each player or collects from
\* each player, and the drawer is not bankrupt by it
EachPlayerCardDrawn ==
  /\ ServedRoll
  /\ ~response'.result.bankruptcy
  /\ \E i \in 1..NumPlayers :
       \/ response'.result.card_effect.payments_to_players[i] > 0
       \/ response'.result.card_effect.collections_from_players[i] > 0

\* C38: a pay_each_player or collect_from_each_player card that does not
\* bankrupt its drawer leaves the cash of all the players together unchanged:
\* what the payers are debited is what the receivers are credited, whatever
\* the other players' balances.
C38_EachPlayerCardsConserveCash ==
  [][EachPlayerCardDrawn =>
       TotalCash(players')
         = TotalCash(players) - players[request'.player_id].cash + CashOnArrival]_vars

\* the jailed player of the step's request left jail: in_jail cleared,
\* jail_turns reset, position and every other player as before, the same player
\* to roll in the same turn
LeftJail(paid, cards_used) ==
  LET p == request'.player_id
  IN  /\ response'.result.success
      /\ response'.result.next_phase = "pre_roll"
      /\ players' = [players EXCEPT ![p] =
                       [@ EXCEPT !.cash = @ - paid,
                                 !.get_out_of_jail_cards = @ - cards_used,
                                 !.in_jail = FALSE, !.jail_turns = 0]]
      /\ players'[p].position = players[p].position
      /\ game' = [game EXCEPT !.turn_phase = "pre_roll"]
      /\ CurrentPlayerId' = p
      /\ UNCHANGED property_states

\* the request of the step was refused by the handler and changed nothing
ExitRefused ==
  /\ ~response'.result.success
  /\ UNCHANGED <<game, players, property_states>>

\* C39: PAY_JAIL_FINE by a jailed player with at least $50 deducts exactly $50
\* and USE_JAIL_CARD by a jailed player with a card takes exactly one card;
\* both clear in_jail, reset jail_turns, leave the position and the current
\* player as they were and return phase PRE_ROLL; with less than $50 or with
\* no card the action fails and changes nothing, so that the number of cards
\* is never negative.
C39_JailExits ==
  [][LET p == request'.player_id
     IN  /\ Served("pay_jail_fine") /\ players[p].in_jail =>
              IF players[p].cash >= JAIL_FINE THEN LeftJail(JAIL_FINE, 0)
                                             ELSE ExitRefused
         /\ Served("use_jail_card") /\ players[p].in_jail =>
              IF players[p].get_out_of_jail_cards >= 1 THEN LeftJail(0, 1)
                                                       ELSE ExitRefused
         /\ \A i \in 1..NumPlayers : players'[i].get_out_of_jail_cards >= 0]_vars

\* a jailed player paid the fine and is free to roll
C39_Witness ==
  /\ request.action_type = "pay_jail_fine"
  /\ response.status = 200
  /\ response.result.success
  /\ ~players[request.player_id].in_jail
  /\ players[request.player_id].position = JAIL_POSITION
  /\ players[request.player_id].cash = STARTING_CASH - JAIL_FINE
  /\ game.turn_phase = "pre_roll"

\* a jailed player used the only card
C39_WitnessCard ==
  /\ request.action_type = "use_jail_card"
  /\ response.status = 200
  /\ response.result.success
  /\ ~players[request.player_id].in_jail
  /\ players[request.player_id].get_out_of_jail_cards = 0
  /\ players[request.player_id].cash = STARTING_CASH

\* a jailed player with $30 asked to pay the fine and stays in jail
C39_WitnessRefused ==
  /\ request.action_type = "pay_jail_fine"
  /\ response.status = 200
  /\ ~response.result.success
  /\ players[request.player_id].in_jail
  /\ players[request.player_id].cash < JAIL_FINE

\* a jailed player without a card asked to use one and stays in jail
C39_WitnessNoCard ==
  /\ request.action_type = "use_jail_card"
  /\ response.status = 200
  /\ ~response.result.success
  /\ players[request.player_id].in_jail
  /\ players[request.player_id].get_out_of_jail_cards = 0

(* ---------- the orchestrator's GameManager ---------- *)

\* task.done()
Done(task) == loop_tasks[task].state \in {"finished", "failed", "cancelled"}

\* how a call ended: the task it found under the game id, whether that task
\* was done when found, what the call returned or raised, whether it created a
\* task, and whether the game id was registered when it ended
Outcome(fn, game_id, task, value, created, registered) ==
  [fn |-> fn, game_id |-> game_id, task |-> task,
   done |-> IF task = None THEN FALSE ELSE Done(task),
   value |-> value, created |-> created, registered |-> registered]

\* stop_game after `await task`: an exception of the loop other than
\* CancelledError propagates; otherwise `del self._tasks[key]`
\* <<_tasks, returned or raised>>
stop_game_resumed(registry, game_id, state) ==
  IF state = "failed" THEN <<registry, "Exception">>
  ELSE IF registry[game_id] = None THEN <<registry, "KeyError">>
  ELSE <<[registry EXCEPT ![game_id] = None], "True">>

\* wait_for_game after `await task`: the result or the exception of the loop,
\* and in either case the guarded `del self._tasks[key]`
wait_for_game_resumed(registry, game_id, state) ==
  <<[registry EXCEPT ![game_id] = None],
    IF state = "finished" THEN "result"
    ELSE IF state = "cancelled" THEN "CancelledError" ELSE "Exception">>

Resumed(fn, registry, game_id, state) ==
  IF fn = "stop_game" THEN stop_game_resumed(registry, game_id, state)
                      ELSE wait_for_game_resumed(registry, game_id, state)

\* the coroutines waiting for a task resume in the order they began to wait
\* [registry, outcomes]
RECURSIVE ResumeAll(_, _, _, _)
ResumeAll(waiters, task, registry, outs) ==
  IF waiters = <<>> THEN [registry |-> registry, outcomes |-> outs]
  ELSE LET c == Head(waiters)
           co == coroutines[c]
           r == Resumed(co.fn, registry, co.game_id, loop_tasks[task].state)
       IN  ResumeAll(Tail(waiters), task, r[1],
                     [outs EXCEPT ![c] = Outcome(co.fn, co.game_id, task, r[2], FALSE,
                                                 r[1][co.game_id] # None)])

EngineUntouched ==
  UNCHANGED <<game, players, property_states, consecutive_doubles, last_roll,
              events, strays, card_drawn, card_decks, call, returned, request,
              response>>

StartGame(c, game_id) ==
  /\ coroutines[c] = NoCoroutine
  /\ IF tasks[game_id] # None
       THEN /\ outcomes' = [NoOutcomes EXCEPT ![c] =
                              Outcome("start_game", game_id, tasks[game_id],
                                      "ValueError", FALSE, TRUE)]
            /\ UNCHANGED <<tasks, loop_tasks>>
       ELSE /\ Len(loop_tasks) < MaxLoops
            /\ loop_tasks' = Append(loop_tasks, [game_id |-> game_id,
                                                 state |-> "running",
                                                 waiters |-> <<>>])
            /\ tasks' = [tasks EXCEPT ![game_id] = Len(loop_tasks) + 1]
            /\ outcomes' = [NoOutcomes EXCEPT ![c] =
                              Outcome("start_game", game_id, None, "None", TRUE, TRUE)]
  /\ UNCHANGED coroutines
  /\ EngineUntouched

\* a call that awaits the task: on a task that is done the await does not
\* suspend
Await(c, fn, game_id, cancel) ==
  LET task == tasks[game_id]
  IN  IF Done(task)
        THEN LET r == Resumed(fn, tasks, game_id, loop_tasks[task].state)
             IN  /\ tasks' = r[1]
                 /\ outcomes' = [NoOutcomes EXCEPT ![c] =
                                   Outcome(fn, game_id, task, r[2], FALSE,
                                           r[1][game_id] # None)]
                 /\ UNCHANGED <<loop_tasks, coroutines>>
        ELSE /\ loop_tasks' = [loop_tasks EXCEPT
                                 ![task].state = IF cancel THEN "cancelling" ELSE @,
                                 ![task].waiters = Append(@, c)]
             /\ coroutines' = [coroutines EXCEPT ![c] =
                                 [fn |-> fn, game_id |-> game_id]]
             /\ outcomes' = NoOutcomes
             /\ UNCHANGED tasks

StopGame(c, game_id) ==
  /\ coroutines[c] = NoCoroutine
  /\ IF tasks[game_id] = None
       THEN /\ outcomes' = [NoOutcomes EXCEPT ![c] =
                              Outcome("stop_game", game_id, None, "False", FALSE, FALSE)]
            /\ UNCHANGED <<tasks, loop_tasks, coroutines>>
       ELSE Await(c, "stop_game", game_id, TRUE)
  /\ EngineUntouched

WaitForGame(c, game_id) ==
  /\ coroutines[c] = NoCoroutine
  /\ IF tasks[game_id] = None
       THEN /\ outcomes' = [NoOutcomes EXCEPT ![c] =
                              Outcome("wait_for_game", game_id, None, "None", FALSE,
                                      FALSE)]
            /\ UNCHANGED <<tasks, loop_tasks, coroutines>>
       ELSE Await(c, "wait_for_game", game_id, FALSE)
  /\ EngineUntouched

IsGameRunning(c, game_id) ==
  LET task == tasks[game_id]
  IN  /\ coroutines[c] = NoCoroutine
      /\ outcomes' = [NoOutcomes EXCEPT ![c] =
                        Outcome("is_game_running", game_id, task,
                                IF task # None /\ ~Done(task) THEN "True" ELSE "False",
                                FALSE, task # None)]
      /\ UNCHANGED <<tasks, loop_tasks, coroutines>>
      /\ EngineUntouched

\* run_game returns: the game is completed
LoopReturns(task) ==
  /\ task <= Len(loop_tasks)
  /\ loop_tasks[task].state = "running"
  /\ loop_tasks' = [loop_tasks EXCEPT ![task].state = "finished"]
  /\ outcomes' = NoOutcomes
  /\ UNCHANGED <<tasks, coroutines>>
  /\ EngineUntouched

\* run_game re-raises an exception of the engine's client
LoopRaises(task) ==
  /\ task <= Len(loop_tasks)
  /\ loop_tasks[task].state = "running"
  /\ loop_tasks' = [loop_tasks EXCEPT ![task].state = "failed"]
  /\ outcomes' = NoOutcomes
  /\ UNCHANGED <<tasks, coroutines>>
  /\ EngineUntouched

\* run_game has handled the CancelledError and re-raised it
LoopCancelled(task) ==
  /\ task <= Len(loop_tasks)
  /\ loop_tasks[task].state = "cancelling"
  /\ loop_tasks' = [loop_tasks EXCEPT ![task].state = "cancelled"]
  /\ outcomes' = NoOutcomes
  /\ UNCHANGED <<tasks, coroutines>>
  /\ EngineUntouched

\* the event loop runs the callbacks of a task that is done
Resume(task) ==
  /\ task <= Len(loop_tasks)
  /\ Done(task)
  /\ loop_tasks[task].waiters # <<>>
  /\ LET r == ResumeAll(loop_tasks[task].waiters, task, tasks, NoOutcomes)
     IN  /\ tasks' = r.registry
         /\ outcomes' = r.outcomes
  /\ coroutines' = [c \in Callers |->
                      IF \E k \in 1..Len(loop_tasks[task].waiters) :
                           loop_tasks[task].waiters[k] = c
                        THEN NoCoroutine ELSE coroutines[c]]
  /\ loop_tasks' = [loop_tasks EXCEPT ![task].waiters = <<>>]
  /\ EngineUntouched

InitGameManager ==
  /\ NewGame
  /\ consecutive_doubles = 0
  /\ last_roll = NoRoll
  /\ card_decks = ShuffledDecks
  /\ call = NoCall
  /\ returned = None
  /\ Idle

NextGameManager ==
  \/ \E c \in Callers : \E game_id \in GameIds :
       \/ StartGame(c, game_id)
       \/ StopGame(c, game_id)
       \/ WaitForGame(c, game_id)
       \/ IsGameRunning(c, game_id)
  \/ \E task \in 1..MaxLoops :
       \/ LoopReturns(task)
       \/ LoopRaises(task)
       \/ LoopCancelled(task)
       \/ Resume(task)

SpecGameManager == InitGameManager /\ [][NextGameManager]_vars

\* the game loops of a game id that are not done
LiveLoops(game_id) ==
  {task \in 1..Len(loop_tasks) :
     loop_tasks[task].game_id = game_id /\ ~Done(task)}

\* C40: the orchestrator's GameManager has at most one game-loop task per
\* game id at any time: start_game on a registered game id raises ValueError
\* and creates no task; stop_game on a registered game id cancels the task,
\* unregisters it and returns True, and returns False when none is
\* registered; is_game_running is true only while a registered task is not
\* done.
C40_OneLoopPerGame ==
  /\ \A game_id \in GameIds : Cardinality(LiveLoops(game_id)) <= 1
  /\ \A c \in Callers :
       LET o == outcomes[c]
       IN  /\ o.fn = "start_game" /\ o.task # None =>
                o.value = "ValueError" /\ ~o.created
           /\ o.fn = "stop_game" =>
                IF o.task # None
                  THEN o.value = "True" /\ ~o.registered /\ Done(o.task)
                  ELSE o.value = "False"
           /\ o.fn = "is_game_running" /\ o.value = "True" =>
                o.task # None /\ ~o.done

====
